---- MODULE Spec2Model ----
(***************************************************************************)
(* A model of the xdata module (src/toto/xdata.py, with the older variant  *)
(* src/XPLOR/xdata.py where the two differ): DimensionDescription, the     *)
(* Header classes and Xdata.                                               *)
(*                                                                         *)
(* Python objects live in heaps (sequences indexed by object identity), so *)
(* that two references to one object are one heap index: a method that     *)
(* changes an object in place changes it for every holder.                 *)
(*                                                                         *)
(* Python values are records [py, v, t]: py is the run-time type, v the    *)
(* integer payload, t the elements of a tuple.  Python indices are 0-based *)
(* and kept so in the arguments; sequences of the model are 1-based.       *)
(***************************************************************************)
EXTENDS Integers, Sequences, FiniteSets, TLC

VARIABLES
    descs,   \* heap of DimensionDescription objects
    hdrs,    \* heap of Header objects (CategoricalHeader, MeasureHeader)
    arrs,    \* heap of numpy arrays
    xds,     \* heap of Xdata objects
    last     \* the last call: operation, arguments, outcome

vars == <<descs, hdrs, arrs, xds, last>>

----------------------------------------------------------------------------
(* Bounds of the model *)

\* longest unit list given to the DimensionDescription constructor
MaxUnitLen == 6

----------------------------------------------------------------------------
(* Python values *)

PyVal(py, v, t) == [py |-> py, v |-> v, t |-> t]
PyInt(n)   == PyVal("int", n, <<>>)
PyStr(n)   == PyVal("str", n, <<>>)
PyBool(n)  == PyVal("bool", n, <<>>)
PyNone     == PyVal("NoneType", 0, <<>>)
PyTuple(t) == PyVal("tuple", 0, t)

\* the integers the tuples of the model are made of
TupleInts == {-1, 0, 1, 10, 255, 256}

\* three-element tuples of integers
IntTriples == {PyTuple(<<PyInt(a), PyInt(b), PyInt(c)>>) : a, b, c \in TupleInts}

\* the values infertype is applied to
PyValues ==
    IntTriples
    \cup {PyTuple(<<PyInt(10), PyInt(20), PyInt(30)>>),
          PyTuple(<<PyInt(10), PyInt(20)>>),
          PyTuple(<<PyVal("float", 1, <<>>), PyInt(2), PyInt(3)>>),
          PyTuple(<<PyBool(1), PyInt(2), PyInt(3)>>),
          PyTuple(<<PyInt(1), PyInt(2), PyStr(1)>>)}
    \cup {PyVal(py, v, <<>>) :
            py \in {"bool", "str", "int", "float", "complex", "float64",
                    "int64", "Color", "list", "NoneType"},
            v \in {0, 1}}

\* the dimension types (src/toto/xdata.py:198)
DimensionTypes == {"numeric", "logical", "string", "color", "mixed"}

\* what a raising call returns in place of a value
Raise == "raise"

(* DimensionDescription.infertype of src/toto/xdata.py.  isinstance(x, bool)
   is tested first; type(x) in [...] is an exact type test. *)
infertype(x) ==
    IF x.py = "bool" THEN "logical"
    ELSE IF x.py = "str" THEN "string"
    ELSE IF x.py \in {"int", "float", "complex", "float64", "int64"}
         THEN "numeric"
    ELSE IF x.py = "Color" THEN "color"
    ELSE "mixed"

\* width of the integers BitAnd works on (two's complement)
BitWidth == 16

RECURSIVE BitAndNat(_, _)
BitAndNat(a, b) ==
    IF a = 0 \/ b = 0 THEN 0
    ELSE (a % 2) * (b % 2) + 2 * BitAndNat(a \div 2, b \div 2)

RECURSIVE Pow2(_)
Pow2(n) == IF n = 0 THEN 1 ELSE 2 * Pow2(n - 1)

\* Python's a & b for 0 <= a < 2^BitWidth and any integer b
BitAnd(a, b) == BitAndNat(a, b % Pow2(BitWidth))

\* Python's a | b for integers a, b of BitWidth bits (two's complement)
BitOr(a, b) ==
    LET m == Pow2(BitWidth)
        u == (a % m) + (b % m) - BitAndNat(a % m, b % m)
    IN  IF u >= m \div 2 THEN u - m ELSE u

\* Python's int(b) of a boolean
BoolInt(b) == IF b THEN 1 ELSE 0

\* the operands bool, int accept & ; any other operand raises TypeError
Bitwise(e) == e.py \in {"int", "bool"}

(* DimensionDescription.infertype of src/XPLOR/xdata.py.  In the tuple test
   & binds tighter than <, so the condition is the chained comparison
     (A & x0) < (256 & x1) < (256 & x2) < (256 & (x0>0) & (x1>0) & (x2>0))
   evaluated left to right, stopping at the first false link. *)
infertypeXPLOR(x) ==
    IF x.py = "bool" THEN "logical"
    ELSE IF x.py = "str" THEN "string"
    ELSE IF x.py \in {"int", "float", "complex"} THEN "numeric"
    ELSE IF x.py = "tuple" /\ Len(x.t) = 3 THEN
        LET x0 == x.t[1]
            x1 == x.t[2]
            x2 == x.t[3]
            A  == x0.py = x1.py /\ x1.py = x2.py /\ x2.py = "int"
            a  == BitAnd(BoolInt(A), x0.v)
            b  == BitAnd(256, x1.v)
            c  == BitAnd(256, x2.v)
            d  == BitAnd(BitAnd(BitAnd(256, BoolInt(x0.v > 0)),
                                BoolInt(x1.v > 0)), BoolInt(x2.v > 0))
        IN  IF ~Bitwise(x0) THEN Raise
            ELSE IF ~Bitwise(x1) THEN Raise
            ELSE IF ~(a < b) THEN "mixed"
            ELSE IF ~Bitwise(x2) THEN Raise
            ELSE IF ~(b < c) THEN "mixed"
            ELSE IF c < d THEN "color" ELSE "mixed"
    ELSE "mixed"

----------------------------------------------------------------------------
(* DimensionDescription *)

\* an element of a unit list: str(e) is e.s; float(e) is e.v when e.num holds
\* and raises otherwise
UnitItem(s, num, v) == [s |-> s, num |-> num, v |-> v]

UnitItems ==
    {UnitItem("m", FALSE, 0), UnitItem("mm", FALSE, 0),
     UnitItem("1", TRUE, 1), UnitItem("2", TRUE, 2)}

\* the unit argument: None, a string, a list, or a value of another type
UnitNone    == [kind |-> "None", s |-> "", items |-> <<>>]
UnitStr(s)  == [kind |-> "str", s |-> s, items |-> <<>>]
UnitList(l) == [kind |-> "list", s |-> "", items |-> l]
UnitOther   == [kind |-> "other", s |-> "", items |-> <<>>]

\* a label argument: a string or a value of another type
LabelStr(s) == [py |-> "str", s |-> s]
LabelBad    == [py |-> "int", s |-> "7"]

\* a DimensionDescription object; unit None is <<>>, all_units None is <<>>
Descriptor(label, dimension_type, unit, all_units) ==
    [label |-> label, dimension_type |-> dimension_type,
     unit |-> unit, all_units |-> all_units]

\* the outcome of a constructor or a method: it raised, or it returned obj
Failed  == [ok |-> FALSE]
Ok(obj) == [ok |-> TRUE, obj |-> obj]

\* d placed in the sorted list s after every entry whose value is <= d.value
RECURSIVE InsertByValue(_, _)
InsertByValue(s, d) ==
    IF s = <<>> THEN <<d>>
    ELSE IF d.value < Head(s).value THEN <<d>> \o s
    ELSE <<Head(s)>> \o InsertByValue(Tail(s), d)

\* the sort left out: the table stays in the order given
SortByValueUnsorted(s) == s

\* list.sort(key=itemgetter('value')): ascending and stable
RECURSIVE SortByValue(_)
SortByValue(s) ==
    IF s = <<>> THEN <<>>
    ELSE InsertByValue(SortByValue(SubSeq(s, 1, Len(s) - 1)), s[Len(s)])

\* the pairs of a unit list, in order: {'unit': str(unit[i]), 'value': float(unit[i+1])}
UnitPairs(l) ==
    [k \in 1..(Len(l) \div 2) |-> [unit |-> l[2 * k - 1].s, value |-> l[2 * k].v]]

\* the first pair whose value is 1: the reference unit
RECURSIVE FirstReference(_)
FirstReference(p) ==
    IF p = <<>> THEN <<>>
    ELSE IF Head(p).value = 1 THEN <<Head(p).unit>>
    ELSE FirstReference(Tail(p))

(* DimensionDescription.__init__ *)
NewDimensionDescription(label, dimension_type, unit) ==
    IF label.py # "str" THEN Failed
    ELSE IF dimension_type \notin DimensionTypes THEN Failed
    ELSE IF unit.kind = "None"
         THEN Ok(Descriptor(label.s, dimension_type, <<>>, <<>>))
    ELSE IF dimension_type # "numeric" THEN Failed
    ELSE IF unit.kind = "str"
         THEN Ok(Descriptor(label.s, dimension_type, <<unit.s>>,
                            <<[unit |-> unit.s, value |-> 1]>>))
    ELSE IF unit.kind = "list" /\ unit.items = <<>> THEN Failed
    ELSE IF unit.kind = "list" THEN
        IF Len(unit.items) % 2 # 0 THEN Failed
        ELSE IF \E k \in 1..(Len(unit.items) \div 2) : ~unit.items[2 * k].num
             THEN Failed
        ELSE IF FirstReference(UnitPairs(unit.items)) = <<>> THEN Failed
        ELSE Ok(Descriptor(label.s, dimension_type,
                           FirstReference(UnitPairs(unit.items)),
                           SortByValue(UnitPairs(unit.items))))
    ELSE Failed

(* DimensionDescription.set_dimtype_to_mixed: only the type is assigned *)
set_dimtype_to_mixed(d) == [d EXCEPT !.dimension_type = "mixed"]

(* DimensionDescription.copy: a new object *)
DescriptorCopy(d) ==
    LET r == NewDimensionDescription(LabelStr(d.label), d.dimension_type, UnitNone)
    IN  [r.obj EXCEPT !.unit = d.unit, !.all_units = d.all_units]

----------------------------------------------------------------------------
(* Python containers.  A list is PyVal("list", 0, elements); a pandas Series
   is PyVal("Series", 0, cells); a pandas DataFrame is
   PyVal("DataFrame", ncols, rows), each row a sequence of ncols cells. *)

PyList(l)            == PyVal("list", 0, l)
Series(c)            == PyVal("Series", 0, c)
DataFrame(rows, nc)  == PyVal("DataFrame", nc, rows)

\* column i (1-based) of a table: values[i]
Column(rows, i) == [r \in 1..Len(rows) |-> rows[r][i]]

\* the sequence s without the positions in the set drop
RECURSIVE Without(_, _, _)
Without(s, drop, k) ==
    IF k > Len(s) THEN <<>>
    ELSE (IF k \in drop THEN <<>> ELSE <<s[k]>>) \o Without(s, drop, k + 1)

----------------------------------------------------------------------------
(* Header objects.  A header holds references (heap indices) to its column
   descriptors; cdsNone tells _column_descriptors is None.  The table of a
   CategoricalHeader is rows/ncols; n_elem, start, scale are the fields of
   a MeasureHeader. *)

CatHeader(label, cds, cdsNone, rows, ncols) ==
    [kind |-> "categorical", label |-> label, cds |-> cds,
     cdsNone |-> cdsNone, rows |-> rows, ncols |-> ncols,
     start |-> 0, scale |-> 0, n_elem |-> 0]

\* Header.n_elem: values.shape[0] for a CategoricalHeader
n_elem(h) == IF h.kind = "categorical" THEN Len(h.rows) ELSE h.n_elem

\* Header.get_n_columns
get_n_columns(h) ==
    IF h.kind = "categorical"
    THEN (IF h.cdsNone THEN 0 ELSE Len(h.cds))
    ELSE 1

\* the outcome of a call that works on the heap of descriptors: the heap
\* after the call (changed also when the call raises), and the object
Raised(d)      == [ok |-> FALSE, descs |-> d]
Returned(d, o) == [ok |-> TRUE, descs |-> d, obj |-> o]

(* createDimensionDescription(label, column): column[0] raises on an empty
   column; the type is that of the first cell when all cells agree. *)
createDimensionDescription(label, column) ==
    IF label.py # "str" THEN Failed
    ELSE IF column = <<>> THEN Failed
    ELSE IF \A e \in 1..Len(column) : infertype(column[e]) = infertype(column[1])
         THEN NewDimensionDescription(label, infertype(column[1]), UnitNone)
    ELSE NewDimensionDescription(label, "mixed", UnitNone)

\* a column descriptor given to a constructor: a label (str), a reference to
\* a DimensionDescription object, or a value of another type
CdStr(s)  == [k |-> "str", s |-> s, id |-> 0]
CdRef(id) == [k |-> "ref", s |-> "", id |-> id]
CdBad     == [k |-> "bad", s |-> "", id |-> 0]

\* the descriptor check left out
ColumnCoherentUnchecked(dd, column) == TRUE

\* the cells of a column agree with the type of a given descriptor
\* (src/toto/xdata.py:895-903)
ColumnCoherent(dd, column) ==
    dd.dimension_type = "mixed"
    \/ \A e \in 1..Len(column) : infertype(column[e]) = dd.dimension_type

(* The loop of CategoricalHeader.__init__ over column_descriptors, from
   column i on: a label makes a new descriptor out of the column, a
   descriptor is checked against the column and kept (the same object). *)
RECURSIVE BuildColumns(_, _, _, _, _)
BuildColumns(d, items, rows, i, cds) ==
    IF i > Len(items) THEN Returned(d, cds)
    ELSE IF items[i].k = "str" THEN
        LET r == createDimensionDescription(LabelStr(items[i].s), Column(rows, i))
        IN  IF ~r.ok THEN Raised(d)
            ELSE BuildColumns(Append(d, r.obj), items, rows, i + 1,
                              Append(cds, Len(d) + 1))
    ELSE IF items[i].k = "ref" THEN
        IF ~ColumnCoherent(d[items[i].id], Column(rows, i)) THEN Raised(d)
        ELSE BuildColumns(d, items, rows, i + 1, Append(cds, items[i].id))
    ELSE Raised(d)

\* the arguments column_descriptors, n_elem of the constructor
CdsNone     == [kind |-> "None", items |-> <<>>]
CdsList(l)  == [kind |-> "list", items |-> l]
CdsOne(c)   == [kind |-> "one", items |-> <<c>>]
CdsOther    == [kind |-> "other", items |-> <<>>]

(* CategoricalHeader.__init__(label, column_descriptors, n_elem, values);
   n is None, an int or a value of another type; values is None, a
   DataFrame or a value of another type. *)
NewCategoricalHeader(d, label, cds, n, values) ==
    IF label.py # "str" THEN Raised(d)
    ELSE IF values.py = "NoneType" THEN
        IF n.py = "NoneType" THEN Raised(d)
        ELSE IF n.py # "int" THEN Raised(d)
        ELSE IF ~(cds.kind = "None" \/ (cds.kind = "list" /\ cds.items = <<>>))
             THEN Raised(d)
        ELSE IF n.v < 0 THEN Raised(d)
        ELSE Returned(d, CatHeader(label.s, <<>>, TRUE,
                                   [r \in 1..n.v |-> <<>>], 0))
    ELSE IF values.py # "DataFrame" THEN Raised(d)
    ELSE IF n.py = "int" /\ n.v # Len(values.t) THEN Raised(d)
    ELSE IF n.py \notin {"int", "NoneType"} THEN Raised(d)
    ELSE IF cds.kind \notin {"one", "list"} THEN Raised(d)
    ELSE IF Len(cds.items) # values.v THEN Raised(d)
    ELSE LET b == BuildColumns(d, cds.items, values.t, 1, <<>>)
         IN  IF ~b.ok THEN Raised(d)
             ELSE Returned(b.descs,
                           CatHeader(label.s, b.obj, FALSE, values.t, values.v))

\* labels given in place of the descriptors: the types are inferred anew
CdsOfLabels(h) ==
    IF h.cdsNone THEN CdsNone
    ELSE CdsList([i \in 1..Len(h.cds) |-> CdStr("name")])

\* the references to the descriptors cds, as a column_descriptors argument;
\* None when the header holds None
CdsOf(h) == IF h.cdsNone THEN CdsNone ELSE CdsList([i \in 1..Len(h.cds) |-> CdRef(h.cds[i])])


----------------------------------------------------------------------------
(* CategoricalHeader.update_categoricalheader.  new_descriptors is the
   header's own list of descriptors, so set_dimtype_to_mixed changes the
   descriptors of the receiver in place, and what it changed stays changed
   when a later check raises. *)

\* heap d with descriptor id widened in place
WidenAt(d, id) == [d EXCEPT ![id] = set_dimtype_to_mixed(d[id])]

\* the test of the loops of 'new', 'chg', 'chg&new', 'chg&rm' on column c
\* (1-based) for a new cell:  (dimtype != 'mixed') | (dimtype != infertype(cell))
WidenTest(d, cds, c, cell) ==
    LET dimtype == d[cds[c]].dimension_type
    IN  (dimtype # "mixed") \/ (dimtype # infertype(cell))

(* for c in range(j): if test(c): new_descriptors[i].set_dimtype_to_mixed()
   of the 'chg' loops, from column c on; i is the position in ind (0-based)
   and indexes the descriptors: past their end it raises IndexError. *)
RECURSIVE WidenChgRow(_, _, _, _, _)
WidenChgRow(d, cds, row, i, c) ==
    IF c > Len(row) THEN Returned(d, <<>>)
    ELSE IF WidenTest(d, cds, c, row[c]) THEN
        IF i + 1 > Len(cds) THEN Raised(d)
        ELSE WidenChgRow(WidenAt(d, cds[i + 1]), cds, row, i, c + 1)
    ELSE WidenChgRow(d, cds, row, i, c + 1)

(* for i in range(j): if test(i): new_descriptors[i].set_dimtype_to_mixed()
   of the 'new' loops, from column c on *)
RECURSIVE WidenNewRow(_, _, _, _)
WidenNewRow(d, cds, row, c) ==
    IF c > Len(row) THEN d
    ELSE IF WidenTest(d, cds, c, row[c])
         THEN WidenNewRow(WidenAt(d, cds[c]), cds, row, c + 1)
    ELSE WidenNewRow(d, cds, row, c + 1)

(* The loop of 'chg' (and of the changed part of 'chg&new', 'chg&rm') from
   position i (0-based) of ind on; rows is newvalues so far.  Returns the
   heap and, when no check raised, the new rows. *)
RECURSIVE ChgLoop(_, _, _, _, _, _)
ChgLoop(d, h, ind, values, i, rows) ==
    IF i >= Len(ind) THEN Returned(d, rows)
    ELSE IF ind[i + 1].py # "int" THEN Raised(d)
    ELSE IF (ind[i + 1].v < 0) \/ (ind[i + 1].v >= n_elem(h)) THEN Raised(d)
    ELSE IF values[i + 1].py # "Series" THEN Raised(d)
    ELSE IF Len(values[i + 1].t) # get_n_columns(h) THEN Raised(d)
    ELSE LET w == WidenChgRow(d, h.cds, values[i + 1].t, i, 1)
         IN  IF ~w.ok THEN Raised(w.descs)
             ELSE ChgLoop(w.descs, h, ind, values, i + 1,
                          [rows EXCEPT ![ind[i + 1].v + 1] = values[i + 1].t])

(* The loop of 'new' (and of the added part of 'chg&new') from position k
   (1-based) of values on *)
RECURSIVE NewLoop(_, _, _, _, _)
NewLoop(d, h, values, k, rows) ==
    IF k > Len(values) THEN Returned(d, rows)
    ELSE IF values[k].py # "Series" THEN Raised(d)
    ELSE IF Len(values[k].t) # get_n_columns(h) THEN Raised(d)
    ELSE NewLoop(WidenNewRow(d, h.cds, values[k].t, 1), h, values, k + 1,
                 Append(rows, values[k].t))

(* The loop of 'all' over the columns: a column that is not mixed is set
   to mixed when a cell of the new table is of another type. *)
RECURSIVE WidenAll(_, _, _, _)
WidenAll(d, cds, rows, j) ==
    IF j > Len(cds) THEN d
    ELSE IF d[cds[j]].dimension_type # "mixed"
            /\ \E i \in 1..Len(rows) :
                 d[cds[j]].dimension_type # infertype(rows[i][j])
         THEN WidenAll(WidenAt(d, cds[j]), cds, rows, j + 1)
    ELSE WidenAll(d, cds, rows, j + 1)

\* every index of the list is an int in [0, n)
IndicesInRange(l, n) ==
    \A k \in 1..Len(l) : l[k].py = "int" /\ l[k].v >= 0 /\ l[k].v < n

\* newvalues.drop(newvalues.index[ind]).reset_index(drop=True)
DropRows(rows, l) == Without(rows, {l[k].v + 1 : k \in 1..Len(l)}, 1)

\* values is None or []
NoValues(values) ==
    values.py = "NoneType" \/ (values.py = "list" /\ values.t = <<>>)

\* the header built at the end of a branch:
\* CategoricalHeader(self._label, descriptors of self, values = newvalues)
Rebuild(d, h, rows, ncols) ==
    NewCategoricalHeader(d, LabelStr(h.label), CdsOf(h), PyNone,
                         DataFrame(rows, ncols))

UpdateAll(d, h, ind, values) ==
    IF ~(ind.py = "NoneType" \/ (ind.py = "list" /\ ind.t = <<>>)
         \/ (ind.py = "range" /\ ind.v = n_elem(h)))
    THEN Raised(d)
    ELSE IF values.py # "DataFrame" THEN Raised(d)
    ELSE IF values.v # h.ncols THEN Raised(d)
    ELSE LET w == IF h.cdsNone THEN d ELSE WidenAll(d, h.cds, values.t, 1)
         IN  NewCategoricalHeader(w, LabelStr(h.label), CdsOf(h), PyNone, values)

\* an update 'new' that adds the new rows before the rows of the receiver
UpdateNewFirst(d, h, ind, values) ==
    IF ~(ind.py = "NoneType" \/ ind.py = "list") THEN Raised(d)
    ELSE IF values.py # "list" THEN Raised(d)
    ELSE LET r == NewLoop(d, h, values.t, 1, <<>>)
         IN  IF ~r.ok THEN r
             ELSE Rebuild(r.descs, h, r.obj \o h.rows, h.ncols)

UpdateNew(d, h, ind, values) ==
    IF ~(ind.py = "NoneType" \/ ind.py = "list") THEN Raised(d)
    ELSE IF values.py # "list" THEN Raised(d)
    ELSE LET r == NewLoop(d, h, values.t, 1, h.rows)
         IN  IF ~r.ok THEN r
             ELSE Rebuild(r.descs, h, r.obj, h.ncols)

UpdateChg(d, h, ind, values) ==
    IF ind.py # "list" THEN Raised(d)
    ELSE IF values.py # "list" THEN Raised(d)
    ELSE IF Len(values.t) # Len(ind.t) THEN Raised(d)
    ELSE LET r == ChgLoop(d, h, ind.t, values.t, 0, h.rows)
         IN  IF ~r.ok THEN r
             ELSE Rebuild(r.descs, h, r.obj, h.ncols)

UpdateRemove(d, h, ind, values) ==
    IF ind.py # "list" THEN Raised(d)
    ELSE IF ~IndicesInRange(ind.t, n_elem(h)) THEN Raised(d)
    ELSE IF ~NoValues(values) THEN Raised(d)
    ELSE Rebuild(d, h, DropRows(h.rows, ind.t), h.ncols)

\* self._values.iloc[k]: k in [-n, n) or IndexError
ILocOk(k, n) == k.py = "int" /\ k.v >= -n /\ k.v < n
ILoc(rows, k) == rows[(k.v % Len(rows)) + 1]

UpdatePerm(d, h, ind, values) ==
    IF ~NoValues(values) THEN Raised(d)
    ELSE IF ind.py # "list" THEN Raised(d)
    ELSE IF Len(ind.t) # n_elem(h) THEN Raised(d)
    ELSE IF \E k \in 1..Len(ind.t) : ~ILocOk(ind.t[k], n_elem(h)) THEN Raised(d)
    ELSE Rebuild(d, h, [k \in 1..Len(ind.t) |-> ILoc(h.rows, ind.t[k])],
                 IF Len(ind.t) = 0 THEN 0 ELSE h.ncols)

UpdateChgNew(d, h, ind, values) ==
    IF ind.py # "list" THEN Raised(d)
    ELSE IF values.py # "list" THEN Raised(d)
    ELSE IF Len(values.t) # 2 THEN Raised(d)
    ELSE IF ~(values.t[1].py = "list" /\ values.t[2].py = "list") THEN Raised(d)
    ELSE IF ind.t = <<>> THEN Raised(d)
    ELSE LET indchg == IF ind.t[1].py = "list" THEN ind.t[1].t ELSE ind.t
         IN  IF Len(values.t[1].t) # Len(indchg) THEN Raised(d)
             ELSE LET r == ChgLoop(d, h, indchg, values.t[1].t, 0, h.rows)
                  IN  IF ~r.ok THEN r
                      ELSE LET q == NewLoop(r.descs, h, values.t[2].t, 1, r.obj)
                           IN  IF ~q.ok THEN q
                               ELSE Rebuild(q.descs, h, q.obj, h.ncols)

UpdateChgRm(d, h, ind, values) ==
    IF ind.py # "list" THEN Raised(d)
    ELSE IF values.py # "list" THEN Raised(d)
    ELSE IF Len(ind.t) # 2 THEN Raised(d)
    ELSE IF ~(ind.t[1].py = "list" /\ ind.t[2].py = "list") THEN Raised(d)
    ELSE IF Len(values.t) # Len(ind.t[1].t) THEN Raised(d)
    ELSE LET r == ChgLoop(d, h, ind.t[1].t, values.t, 0, h.rows)
         IN  IF ~r.ok THEN r
             ELSE IF ~IndicesInRange(ind.t[2].t, n_elem(h)) THEN Raised(r.descs)
             ELSE Rebuild(r.descs, h, DropRows(r.obj, ind.t[2].t), h.ncols)

\* the flags of update_categoricalheader
HeaderFlags == {"all", "new", "chg", "remove", "perm", "chg&new", "chg&rm"}

(* CategoricalHeader.update_categoricalheader(flag, ind, values) on header
   h with heap d: the heap after the call and, when it returned, the new
   header. *)
update_categoricalheader(d, h, flag, ind, values) ==
    IF flag = "all" THEN UpdateAll(d, h, ind, values)
    ELSE IF flag = "new" THEN UpdateNew(d, h, ind, values)
    ELSE IF flag = "chg" THEN UpdateChg(d, h, ind, values)
    ELSE IF flag = "remove" THEN UpdateRemove(d, h, ind, values)
    ELSE IF flag = "perm" THEN UpdatePerm(d, h, ind, values)
    ELSE IF flag = "chg&new" THEN UpdateChgNew(d, h, ind, values)
    ELSE IF flag = "chg&rm" THEN UpdateChgRm(d, h, ind, values)
    ELSE Raised(d)


(* CategoricalHeader.add_column(column_descriptor, values) *)
add_column(d, h, cd, values) ==
    IF values.py # "Series" THEN Raised(d)
    ELSE IF Len(values.t) # Len(h.rows) THEN Raised(d)
    ELSE IF cd.k = "str" /\ ~createDimensionDescription(LabelStr(cd.s), values.t).ok
         THEN Raised(d)
    ELSE IF cd.k = "bad" THEN Raised(d)
    ELSE IF cd.k = "ref" /\ ~ColumnCoherent(d[cd.id], values.t) THEN Raised(d)
    ELSE IF h.cdsNone THEN Raised(d)
    ELSE LET d1  == IF cd.k = "str"
                    THEN Append(d, createDimensionDescription(
                                       LabelStr(cd.s), values.t).obj)
                    ELSE d
             new == IF cd.k = "str" THEN Len(d) + 1 ELSE cd.id
             r   == NewCategoricalHeader(
                        d1, LabelStr(h.label),
                        CdsList([i \in 1..(Len(h.cds) + 1) |->
                                   IF i <= Len(h.cds) THEN CdRef(h.cds[i])
                                   ELSE CdRef(new)]),
                        PyNone,
                        DataFrame([k \in 1..Len(h.rows) |->
                                     Append(h.rows[k], values.t[k])],
                                  h.ncols + 1))
         IN  IF r.ok THEN r ELSE Raised(d)

\* the descriptors of a header copied one by one onto the end of the heap
RECURSIVE CopyDescriptors(_, _, _)
CopyDescriptors(d, cds, i) ==
    IF i > Len(cds) THEN d
    ELSE CopyDescriptors(Append(d, DescriptorCopy(d[cds[i]])), cds, i + 1)

\* a copy of a CategoricalHeader that keeps the descriptors of the original
CategoricalCopySharing(d, h) ==
    NewCategoricalHeader(d, LabelStr(h.label),
                         CdsList([i \in 1..Len(h.cds) |-> CdRef(h.cds[i])]),
                         PyInt(n_elem(h)), DataFrame(h.rows, h.ncols))

(* CategoricalHeader.copy: new descriptors, a copy of the table *)
CategoricalCopy(d, h) ==
    LET d1 == CopyDescriptors(d, h.cds, 1)
        r  == NewCategoricalHeader(
                  d1, LabelStr(h.label),
                  CdsList([i \in 1..Len(h.cds) |-> CdRef(Len(d) + i)]),
                  PyInt(n_elem(h)), DataFrame(h.rows, h.ncols))
    IN  IF r.ok THEN r ELSE Raised(d)


----------------------------------------------------------------------------
(* The calls of the DimensionDescription layer: the constructor and the
   static method infertype, each applied once to arguments drawn at the
   start. *)

\* the sequences over S of length at most n
SeqsUpTo(S, n) == UNION {[1..k -> S] : k \in 0..n}

\* the arguments of the calls
DimCalls ==
    {[op |-> "DimensionDescription", st |-> "call", label |-> l,
      dimension_type |-> t, unit |-> u] :
        l \in {LabelStr("x"), LabelBad},
        t \in DimensionTypes \cup {"integer"},
        u \in {UnitNone, UnitStr("kg"), UnitOther}}
    \cup
    {[op |-> "DimensionDescription", st |-> "call", label |-> LabelStr("x"),
      dimension_type |-> t, unit |-> UnitList(l)] :
        t \in {"numeric", "string"}, l \in SeqsUpTo(UnitItems, MaxUnitLen)}
    \cup
    {[op |-> "infertype", st |-> "call", x |-> x] : x \in PyValues}

InitDim ==
    /\ descs = <<>>
    /\ hdrs = <<>>
    /\ arrs = <<>>
    /\ xds = <<>>
    /\ last \in DimCalls

\* d = DimensionDescription(label, dimension_type, unit)
CallDimensionDescription ==
    /\ last.op = "DimensionDescription"
    /\ last.st = "call"
    /\ last' = [op |-> last.op, st |-> "done", label |-> last.label,
                dimension_type |-> last.dimension_type, unit |-> last.unit,
                res |-> NewDimensionDescription(last.label,
                                                last.dimension_type, last.unit)]
    /\ UNCHANGED <<descs, hdrs, arrs, xds>>

\* DimensionDescription.infertype(x), in both variants of the module
CallInfertype ==
    /\ last.op = "infertype"
    /\ last.st = "call"
    /\ last' = [op |-> last.op, st |-> "done", x |-> last.x,
                res |-> infertype(last.x), resXPLOR |-> infertypeXPLOR(last.x)]
    /\ UNCHANGED <<descs, hdrs, arrs, xds>>

NextDim == CallDimensionDescription \/ CallInfertype

SpecDim == InitDim /\ [][NextDim]_vars

----------------------------------------------------------------------------
(* Properties of the DimensionDescription layer *)

\* the constructor call has returned a descriptor that has a conversion table
DimAccepted ==
    /\ last.op = "DimensionDescription"
    /\ last.st = "done"
    /\ last.res.ok
    /\ last.res.obj.all_units # <<>>

\* the entries of table t whose coefficient is 1.0
ReferenceEntries(t) == {k \in 1..Len(t) : t[k].value = 1}

\* table t is in ascending order of coefficient
Ascending(t) == \A j, k \in 1..Len(t) : j < k => t[j].value <= t[k].value

\* C9 as stated: every accepted unit list leaves a conversion table that
\* holds exactly one entry of coefficient 1.0 and is in ascending order of
\* coefficient.
C9_ExactlyOneReference ==
    DimAccepted =>
        /\ Cardinality(ReferenceEntries(last.res.obj.all_units)) = 1
        /\ Ascending(last.res.obj.all_units)

\* C9 amended: every accepted unit list leaves a conversion table that holds
\* at least one entry of coefficient 1.0, whose entries are the pairs given,
\* in ascending order of coefficient; the unit kept is the name of one of
\* the entries of coefficient 1.0.
C9_SomeReferenceSorted ==
    DimAccepted =>
        LET t == last.res.obj.all_units
        IN  /\ ReferenceEntries(t) # {}
            /\ Ascending(t)
            /\ \E k \in ReferenceEntries(t) : last.res.obj.unit = <<t[k].unit>>
            /\ last.unit.kind = "list" =>
                 /\ Len(t) = Len(last.unit.items) \div 2
                 /\ \A e \in {t[k] : k \in 1..Len(t)} :
                      Cardinality({k \in 1..Len(t) : t[k] = e})
                        = Cardinality({k \in 1..Len(t) :
                                         UnitPairs(last.unit.items)[k] = e})

\* C9 witness: a list of three pairs given out of order was accepted, and
\* the table kept is not in the order given
C9_Witness ==
    /\ DimAccepted
    /\ last.unit.kind = "list"
    /\ Len(last.res.obj.all_units) = 3
    /\ last.res.obj.all_units # UnitPairs(last.unit.items)

\* a three-element tuple of integers, each in [0, 255]
IsColorTriple(x) ==
    /\ x.py = "tuple"
    /\ Len(x.t) = 3
    /\ \A k \in 1..3 : x.t[k].py = "int" /\ x.t[k].v \in 0..255

\* the classification C10 states
C10_Claimed(x) ==
    IF x.py = "bool" THEN "logical"
    ELSE IF x.py = "str" THEN "string"
    ELSE IF x.py \in {"int", "float", "complex"} THEN "numeric"
    ELSE IF x.py = "Color" \/ IsColorTriple(x) THEN "color"
    ELSE "mixed"

\* C10 as stated: infertype returns for every value: logical for a boolean,
\* string for a string, numeric for an int, float or complex scalar, color
\* for a three-element tuple of integers in [0, 255] or a Color, mixed for
\* any other value.
C10_InfertypeClassifies ==
    (last.op = "infertype" /\ last.st = "done"
        /\ last.x.py \notin {"float64", "int64"})
    => last.res = C10_Claimed(last.x)

----------------------------------------------------------------------------
(* The calls of the Header layer: headers are built, copied, extended and
   updated; every header returned stays in the heap, and so do the
   descriptors it refers to. *)

\* most calls a caller makes
MaxCalls == 3
\* most headers a caller builds with the constructor
MaxRoots == 1
\* most rows of a table a caller builds
MaxRows == 2
\* longest list of indices or of new rows a caller gives
MaxInd == 2

\* the cells of the tables
HCells == {PyInt(1), PyInt(2), PyStr(1)}

\* the numbers of columns of the tables a caller builds
ColumnCounts == {1, 2}

\* the rows of j cells a caller gives
RowsOf(j) ==
    IF j = 2 THEN {<<PyInt(1), PyStr(1)>>, <<PyInt(2), PyStr(1)>>,
                   <<PyStr(1), PyInt(1)>>}
    ELSE [1..j -> HCells]

\* the tables of j columns a caller builds: the empty one, and the full
\* tables whose first row, and no other, is FirstRow(j)
FirstRow(j) == IF j = 2 THEN <<PyInt(1), PyStr(1)>> ELSE [i \in 1..j |-> PyInt(1)]
TablesOf(j) ==
    {DataFrame(t, j) :
       t \in {u \in [1..MaxRows -> RowsOf(j)] :
                 \A k \in 1..MaxRows : (u[k] = FirstRow(j)) <=> (k = 1)}
              \cup {<<>>}}

\* the descriptor a caller makes for a column: a label, or a new
\* DimensionDescription(label, type, unit)
AsLabel == [k |-> "str", dimension_type |-> "", unit |-> UnitNone]
AsNew(t, u) == [k |-> "new", dimension_type |-> t, unit |-> u]

\* the descriptors a caller makes for the j columns of a table
NewDescriptors(j) ==
    IF j = 1
    THEN {<<AsLabel>>, <<AsNew("numeric", UnitStr("kg"))>>,
          <<AsNew("mixed", UnitNone)>>}
    ELSE {[i \in 1..j |-> AsLabel],
          [i \in 1..j |-> IF i = 1 THEN AsNew("numeric", UnitStr("kg"))
                          ELSE AsNew("string", UnitNone)]}

\* the labels of the columns
ColumnLabel(i) == IF i = 1 THEN "name" ELSE IF i = 2 THEN "price" ELSE "more"

\* the heap after the caller has made its descriptors for columns 1..Len(c)
RECURSIVE MakeDescriptors(_, _, _)
MakeDescriptors(d, c, i) ==
    IF i > Len(c) THEN d
    ELSE IF c[i].k = "str" THEN MakeDescriptors(d, c, i + 1)
    ELSE MakeDescriptors(
             Append(d, NewDimensionDescription(LabelStr(ColumnLabel(i)),
                                               c[i].dimension_type,
                                               c[i].unit).obj),
             c, i + 1)

\* the column_descriptors argument made of them
MadeCds(d, c) ==
    CdsList([i \in 1..Len(c) |->
               IF c[i].k = "str" THEN CdStr(ColumnLabel(i))
               ELSE CdRef(Len(d) + Cardinality({k \in 1..i : c[k].k # "str"}))])

\* the outcome of a call on the heaps: the descriptors are those the call
\* left; a header returned is added to the heap of headers
Outcome(r, call) ==
    /\ descs' = r.descs
    /\ hdrs' = IF r.ok THEN Append(hdrs, r.obj) ELSE hdrs
    /\ last' = [call EXCEPT !.ok = r.ok,
                            !.res = IF r.ok THEN Len(hdrs) + 1 ELSE 0,
                            !.changed = (r.descs # descs),
                            !.n = last.n + 1]
    /\ UNCHANGED <<arrs, xds>>

\* what is recorded of a call
Call(op, rcv, flag, ind, values) ==
    [op |-> op, rcv |-> rcv, flag |-> flag, ind |-> ind, values |-> values,
     ok |-> FALSE, res |-> 0, changed |-> FALSE, n |-> 0, ret |-> PyNone]

\* a caller goes on after a call that returned, and after one that raised
\* when the heap is no longer what it was: after a call that raised and
\* changed nothing, the objects are those before it
GoesOn == (last.ok \/ last.changed) /\ last.n < MaxCalls

InitHeader ==
    /\ descs = <<>>
    /\ hdrs = <<>>
    /\ arrs = <<>>
    /\ xds = <<>>
    /\ last = [Call("init", 0, "", PyNone, PyNone) EXCEPT !.ok = TRUE]

\* h = CategoricalHeader(label, column_descriptors, n_elem, values)
CallCategoricalHeader ==
    /\ GoesOn
    /\ Len(hdrs) < MaxRoots
    /\ \/ \E n \in {PyNone, PyInt(-1), PyInt(MaxRows)},
             c \in {CdsNone, CdsList(<<CdStr("name")>>)} :
            Outcome(NewCategoricalHeader(descs, LabelStr("fruits"), c, n, PyNone),
                    Call("CategoricalHeader", 0, "", n, PyNone))
       \/ \E j \in ColumnCounts :
            \E c \in NewDescriptors(j), v \in TablesOf(j) :
              LET d1 == MakeDescriptors(descs, c, 1)
                  r  == NewCategoricalHeader(d1, LabelStr("fruits"),
                                             MadeCds(descs, c), PyNone, v)
              IN  Outcome(IF r.ok THEN r ELSE Raised(descs),
                          Call("CategoricalHeader", 0, "", PyNone, v))

\* the rows of j cells a caller gives to an update
NewRowsOf(j) ==
    IF j = 0 THEN {<<>>}
    ELSE IF j = 1 THEN {<<PyInt(2)>>, <<PyStr(1)>>}
    ELSE {[i \in 1..j |-> IF i = 2 THEN PyStr(1) ELSE PyInt(2)],
          [i \in 1..j |-> IF i = 2 THEN PyInt(1) ELSE PyStr(1)]}

\* a Series that is one cell too long for j columns
LongSeries(j) == Series([k \in 1..(j + 1) |-> PyInt(1)])

\* the lists of rows a caller gives: good rows, or a row too long, alone or
\* after a good row
RowLists(j) ==
    {PyList(l) : l \in SeqsUpTo({Series(r) : r \in NewRowsOf(j)}, MaxInd)}
    \cup {PyList(<<LongSeries(j)>>)}
    \cup {PyList(<<Series(CHOOSE r \in NewRowsOf(j) : TRUE), LongSeries(j)>>)}

\* the lists of indices a caller gives for a header of n elements: one
\* index, the first and the last, the first twice, or one index out of range
IndexLists(n) ==
    {PyList(l) : l \in SeqsUpTo({PyInt(k) : k \in 0..(n - 1)}, 1)}
    \cup (IF n > 0 /\ MaxInd >= 2
          THEN {PyList(<<PyInt(0), PyInt(n - 1)>>), PyList(<<PyInt(0), PyInt(0)>>)}
          ELSE {})
    \cup {PyList(<<PyInt(-1)>>), PyList(<<PyInt(n)>>)}

\* the lists of at most one index (the first, or one out of range), and of
\* at most one row
ShortIndexLists(n) ==
    {PyList(<<>>), PyList(<<PyInt(n)>>)}
    \cup (IF n > 0 THEN {PyList(<<PyInt(0)>>)} ELSE {})
ShortRowLists(j)   == {v \in RowLists(j) : Len(v.t) <= 1}

\* the changed rows a caller gives with their indices: as many rows as
\* indices; a row too long only at an index in range; two rows alike, or
\* the second too long
ChangedRows(I, V, n, j) ==
    {a \in I \X V :
        /\ Len(a[1].t) = Len(a[2].t)
        /\ (\E k \in 1..Len(a[1].t) : a[1].t[k].v \notin 0..(n - 1))
              => a[2].t = [k \in 1..Len(a[1].t) |->
                             Series(CHOOSE r \in NewRowsOf(j) : TRUE)]
        /\ Len(a[2].t) = 2 /\ a[2].t[2] # LongSeries(j)
              => a[2].t[1] = a[2].t[2]}

\* the tables a caller gives to replace the whole table
NewTablesOf(j) ==
    {DataFrame(t, j) : t \in [1..MaxRows -> NewRowsOf(j)] \cup {<<>>}}

\* the arguments (ind, values) a caller gives with a flag
UpdateArgs(h, flag) ==
    LET n == n_elem(h)
        j == get_n_columns(h)
    IN  IF flag = "all"
        THEN ({PyNone} \X (NewTablesOf(j) \cup {PyNone, DataFrame(<<>>, j + 1)}))
             \cup {<<PyList(<<PyInt(0)>>), DataFrame(<<>>, j)>>}
        ELSE IF flag = "new"
        THEN {PyNone} \X (RowLists(j) \cup {PyNone})
        ELSE IF flag = "chg"
        THEN ChangedRows(IndexLists(n), RowLists(j), n, j)
             \cup {<<PyList(<<PyInt(0)>>), PyList(<<>>)>>}
        ELSE IF flag = "remove"
        THEN (IndexLists(n) \X {PyNone})
             \cup {<<PyList(<<>>), PyList(<<PyInt(0)>>)>>}
        ELSE IF flag = "perm"
        THEN ({PyList(l) : l \in [1..n -> {PyInt(k) : k \in 0..(n - 1)}]}
                \X {PyNone})
             \cup {<<PyList([k \in 1..n |-> PyInt(k - 2)]), PyNone>>,
                   <<PyList([k \in 1..n |-> PyInt(k)]), PyNone>>,
                   <<PyList(<<>>), PyList(<<PyInt(0)>>)>>}
        ELSE IF flag = "chg&new"
        THEN {<<a[1], PyList(<<a[2], w>>)>> :
                a \in ChangedRows(ShortIndexLists(n), ShortRowLists(j), n, j),
                w \in ShortRowLists(j) \ {PyList(<<Series(CHOOSE r \in NewRowsOf(j) : TRUE)>>)}}
             \cup {<<PyList(<<PyList(<<>>), PyNone>>),
                     PyList(<<PyList(<<>>), PyList(<<>>)>>)>>}
        ELSE IF flag = "chg&rm"
        THEN {<<PyList(<<a[1], r>>), a[2]>> :
                a \in ChangedRows(ShortIndexLists(n), ShortRowLists(j), n, j),
                r \in {PyList(<<>>), PyList(<<PyInt(0)>>), PyList(<<PyInt(n)>>)}}
             \cup (IF n >= 2
                   THEN {<<PyList(<<PyList(<<PyInt(0), PyInt(1)>>), r>>),
                           PyList(<<Series(v), Series(v)>>)>> :
                           r \in {PyList(<<>>), PyList(<<PyInt(0)>>),
                                  PyList(<<PyInt(1), PyInt(1)>>)},
                           v \in NewRowsOf(j)}
                   ELSE {})
        ELSE {<<PyNone, PyNone>>}

\* h2 = h.update_categoricalheader(flag, ind, values)
CallUpdateCategoricalHeader ==
    /\ GoesOn
    /\ \E rcv \in 1..Len(hdrs), flag \in HeaderFlags \cup {"rm"} :
         /\ hdrs[rcv].kind = "categorical"
         /\ \E a \in UpdateArgs(hdrs[rcv], flag) :
              Outcome(update_categoricalheader(descs, hdrs[rcv], flag, a[1], a[2]),
                      Call("update_categoricalheader", rcv, flag, a[1], a[2]))

\* h2 = h.add_column(column_descriptor, values)
CallAddColumn ==
    /\ GoesOn
    /\ \E rcv \in 1..Len(hdrs), c \in NewDescriptors(1) :
         /\ hdrs[rcv].kind = "categorical"
         /\ get_n_columns(hdrs[rcv]) + 1 \in ColumnCounts
         /\ \E v \in {Series([k \in 1..n_elem(hdrs[rcv]) |-> x]) :
                           x \in {PyInt(1), PyStr(1)}}
                  \cup {Series([k \in 1..(n_elem(hdrs[rcv]) + 1) |-> PyInt(1)])} :
              LET d1 == MakeDescriptors(descs, c, 1)
                  cd == IF c[1].k = "str" THEN CdStr("more")
                        ELSE CdRef(Len(descs) + 1)
                  r  == add_column(d1, hdrs[rcv], cd, v)
              IN  Outcome(IF r.ok THEN r ELSE Raised(descs),
                          Call("add_column", rcv, "", PyNone, v))

\* h2 = h.copy()
CallCopy ==
    /\ GoesOn
    /\ \E rcv \in 1..Len(hdrs) :
         /\ hdrs[rcv].kind = "categorical"
         /\ Outcome(CategoricalCopy(descs, hdrs[rcv]),
                    Call("copy", rcv, "", PyNone, PyNone))

(* The test  x >= n | x < 0  of get_value and get_itemname: | binds tighter
   than the comparisons, so it is the chained comparison
   x >= (n | x) and (n | x) < 0. *)
OutOfRangeTest(x, n) == x >= BitOr(n, x) /\ BitOr(n, x) < 0

\* self._values[column][line]: the column and the line are looked up by
\* their labels 0..ncols-1 and 0..n_elem-1, KeyError otherwise
CellAt(h, column, line) ==
    IF column \notin 0..(h.ncols - 1) THEN Failed
    ELSE IF line \notin 0..(Len(h.rows) - 1) THEN Failed
    ELSE [ok |-> TRUE, obj |-> h.rows[line + 1][column + 1]]

\* the columns of header h whose descriptor has the label s
ColumnsLabelled(d, h, s) == {c \in 1..Len(h.cds) : d[h.cds[c]].label = s}

(* CategoricalHeader.get_value(line, column): the value returned, or Failed
   when the call raises.  column is None, an int, a str (a LabelStr) or a
   value of another type. *)
CategoricalGetValue(d, h, line, column) ==
    IF line.py # "int" THEN Failed
    ELSE IF OutOfRangeTest(line.v, n_elem(h)) THEN Failed
    ELSE IF column.py \in {"NoneType", "int"} THEN
        LET c == IF column.py = "NoneType" THEN 0 ELSE column.v
        IN  IF c = 0 /\ get_n_columns(h) = 0 THEN [ok |-> TRUE, obj |-> line]
            ELSE IF OutOfRangeTest(c, get_n_columns(h)) THEN Failed
            ELSE CellAt(h, c, line.v)
    ELSE IF column.py # "str" THEN Failed
    ELSE IF h.cdsNone THEN Failed
    ELSE IF ColumnsLabelled(d, h, column.s) = {} THEN Failed
    ELSE CellAt(h, (CHOOSE c \in ColumnsLabelled(d, h, column.s) :
                      \A e \in ColumnsLabelled(d, h, column.s) : c <= e) - 1,
                line.v)

\* the lines and the columns a caller asks for on a header of n elements
AskedLines(n)  == {PyInt(k) : k \in {-3, -1, 0, n - 1, n, n + 1}} \cup {PyStr(1)}
AskedColumns   == {PyNone, PyInt(0), PyInt(1), LabelStr("name"), LabelStr("none")}

\* the outcome of a call that reads: the heaps are left alone
ReadOutcome(r, call) ==
    /\ last' = [call EXCEPT !.ok = r.ok,
                            !.ret = IF r.ok THEN r.obj ELSE PyNone,
                            !.n = last.n + 1]
    /\ UNCHANGED <<descs, hdrs, arrs, xds>>

\* v = h.get_value(line, column)
CallGetValue ==
    /\ GoesOn
    /\ \E rcv \in 1..Len(hdrs) :
         /\ hdrs[rcv].kind = "categorical"
         /\ \E line \in AskedLines(n_elem(hdrs[rcv])), column \in AskedColumns :
              ReadOutcome(CategoricalGetValue(descs, hdrs[rcv], line, column),
                          Call("get_value", rcv, "", line, column))

NextHeader ==
    \/ CallCategoricalHeader
    \/ CallUpdateCategoricalHeader
    \/ CallAddColumn
    \/ CallCopy
    \/ CallGetValue

SpecHeader == InitHeader /\ [][NextHeader]_vars

----------------------------------------------------------------------------
(* Properties of the Header layer *)

\* what a caller sees of header h in heap d: its label, its table, and the
\* type and unit of each of its column descriptors
HeaderView(d, h) ==
    [label |-> h.label, rows |-> h.rows, ncols |-> h.ncols,
     columns |-> [i \in 1..Len(h.cds) |->
                    [dimension_type |-> d[h.cds[i]].dimension_type,
                     unit |-> d[h.cds[i]].unit]]]

\* the type of column c of header h in heap d
ColumnType(d, h, c) == d[h.cds[c]].dimension_type

\* the rows of new cells that a call of update_categoricalheader that
\* returned was given
SuppliedRows(call) ==
    IF call.flag = "all" THEN call.values.t
    ELSE IF call.flag = "chg&new"
    THEN [k \in 1..Len(call.values.t[1].t) |-> call.values.t[1].t[k].t]
         \o [k \in 1..Len(call.values.t[2].t) |-> call.values.t[2].t[k].t]
    ELSE IF call.flag \in {"new", "chg", "chg&rm"}
    THEN [k \in 1..Len(call.values.t) |-> call.values.t[k].t]
    ELSE <<>>

\* C2 as stated: a call of update_categoricalheader that returns, with any
\* flag, leaves the receiver as it was: its label, its table, and the type
\* and unit of each of its column descriptors.
C2_UpdateLeavesReceiver ==
    [][(last'.op = "update_categoricalheader" /\ last'.ok)
         => HeaderView(descs', hdrs'[last'.rcv])
              = HeaderView(descs, hdrs[last'.rcv])]_vars

\* C3 as stated: a call of update_categoricalheader that raises, with any
\* flag and arguments, leaves the receiver as it was, the types of its
\* column descriptors included.
C3_FailedUpdateLeavesReceiver ==
    [][(last'.op = "update_categoricalheader" /\ ~last'.ok)
         => HeaderView(descs', hdrs'[last'.rcv])
              = HeaderView(descs, hdrs[last'.rcv])]_vars

\* C5: the type of a descriptor never goes from mixed to another type, and
\* a header returned by update_categoricalheader, add_column or copy has
\* type mixed for every column that is mixed in the receiver.
C5_MixedStaysMixed ==
    [][/\ \A id \in 1..Len(descs) :
            descs[id].dimension_type = "mixed"
              => descs'[id].dimension_type = "mixed"
       /\ (last'.op \in {"update_categoricalheader", "add_column", "copy"}
             /\ last'.ok)
            => \A c \in 1..Len(hdrs[last'.rcv].cds) :
                 ColumnType(descs, hdrs[last'.rcv], c) = "mixed"
                   => /\ c <= Len(hdrs'[last'.res].cds)
                      /\ ColumnType(descs', hdrs'[last'.res], c) = "mixed"]_vars

\* C5 witness: a header returned by an update, one of its columns mixed, has
\* been copied; the copy has a descriptor of its own for the column, mixed
C5_Witness ==
    /\ last.op = "copy"
    /\ last.ok
    /\ last.rcv = 2
    /\ \E c \in 1..Len(hdrs[2].cds) :
         /\ ColumnType(descs, hdrs[2], c) = "mixed"
         /\ hdrs[last.res].cds[c] # hdrs[2].cds[c]
         /\ ColumnType(descs, hdrs[last.res], c) = "mixed"

\* C6 as stated: when update_categoricalheader returns for flag 'new',
\* 'chg', 'all', 'chg&new' or 'chg&rm', a column that was not mixed is mixed
\* in the header returned if and only if one of the new cells given for it
\* is of another type than the column.
C6_WidensIffDisagrees ==
    [][(last'.op = "update_categoricalheader" /\ last'.ok
          /\ last'.flag \in {"new", "chg", "all", "chg&new", "chg&rm"})
         => \A c \in 1..Len(hdrs[last'.rcv].cds) :
              ColumnType(descs, hdrs[last'.rcv], c) # "mixed"
                => ((ColumnType(descs', hdrs'[last'.res], c) = "mixed")
                      <=> \E k \in 1..Len(SuppliedRows(last')) :
                            infertype(SuppliedRows(last')[k][c])
                              # ColumnType(descs, hdrs[last'.rcv], c))]_vars

\* C7: in every header, every cell of a column whose descriptor is not
\* mixed is of the type of the descriptor.
C7_CellsMatchColumnType ==
    \A i \in 1..Len(hdrs) :
      \A c \in 1..Len(hdrs[i].cds) :
        ColumnType(descs, hdrs[i], c) # "mixed"
          => \A r \in 1..Len(hdrs[i].rows) :
               infertype(hdrs[i].rows[r][c]) = ColumnType(descs, hdrs[i], c)

\* C7 witness: an update with flag 'chg' has returned a header of two
\* columns, one widened to mixed and one that is not mixed
C7_Witness ==
    /\ last.op = "update_categoricalheader"
    /\ last.flag = "chg"
    /\ last.ok
    /\ hdrs[last.res].rows # <<>>
    /\ Len(hdrs[last.res].cds) = 2
    /\ ColumnType(descs, hdrs[last.res], 1) = "mixed"
    /\ ColumnType(descs, hdrs[last.res], 2) # "mixed"

\* C8 as stated: every descriptor that has a unit is of type numeric, also
\* after it has been widened to mixed.
C8_UnitOnlyOnNumeric ==
    \A id \in 1..Len(descs) :
      descs[id].unit # <<>> => descs[id].dimension_type = "numeric"

----------------------------------------------------------------------------
(* numpy arrays.  An ndarray object is [shape, elems], elems in C order
   (the last index runs fastest); indices are 0-based as in the source. *)

RECURSIVE Product(_)
Product(s) == IF s = <<>> THEN 1 ELSE Head(s) * Product(Tail(s))

\* the position in elems, less one, of the element at index tuple idx
RECURSIVE Offset(_, _)
Offset(s, idx) ==
    IF s = <<>> THEN 0
    ELSE idx[1] * Product(Tail(s)) + Offset(Tail(s), Tail(idx))

\* the index tuple of the element at position k + 1 of elems
RECURSIVE Unravel(_, _)
Unravel(s, k) ==
    IF s = <<>> THEN <<>>
    ELSE <<k \div Product(Tail(s))>> \o Unravel(Tail(s), k % Product(Tail(s)))

NdArray(shape, elems) == [shape |-> shape, elems |-> elems]

\* the array of a shape whose element at each index tuple is F(tuple)
ArrayFrom(shape, F(_)) ==
    NdArray(shape, [k \in 1..Product(shape) |-> F(Unravel(shape, k - 1))])

\* a[idx]
At(a, idx) == a.elems[Offset(a.shape, idx) + 1]

\* np.zeros(shape)
Zeros(shape) == ArrayFrom(shape, LAMBDA idx : 0)

\* a tuple without its position d, and with v put in at position d
DropAt(s, d) ==
    [k \in 1..(Len(s) - 1) |-> IF k <= d THEN s[k] ELSE s[k + 1]]
InsertAt(s, d, v) ==
    [k \in 1..(Len(s) + 1) |->
       IF k <= d THEN s[k] ELSE IF k = d + 1 THEN v ELSE s[k - 1]]

\* the shape of a value given in an assignment to a target of some rank:
\* leading axes of length 1 beyond the rank of the target are dropped
RECURSIVE StripLeading(_, _)
StripLeading(vshape, rank) ==
    IF Len(vshape) > rank /\ Head(vshape) = 1
    THEN StripLeading(Tail(vshape), rank)
    ELSE vshape

\* the shape padded with leading axes of length 1 up to a rank
PadLeading(vshape, rank) ==
    [k \in 1..(rank - Len(vshape)) |-> 1] \o vshape

\* numpy broadcasting of a value to the shape of the target of an
\* assignment: axis by axis, the lengths agree or the value has length 1
BroadcastOk(vshape, target) ==
    LET vs == StripLeading(vshape, Len(target))
    IN  /\ Len(vs) <= Len(target)
        /\ \A k \in 1..Len(target) :
             LET l == PadLeading(vs, Len(target))[k]
             IN  l = target[k] \/ l = 1

\* the element of the broadcast value at index tuple idx of the target
BroadcastAt(v, target, idx) ==
    LET vs == PadLeading(StripLeading(v.shape, Len(target)), Len(target))
    IN  At(NdArray(vs, v.elems),
           [k \in 1..Len(target) |-> IF vs[k] = 1 THEN 0 ELSE idx[k]])

\* an int k is an index of an axis of length n: negative indices count from
\* the end
IndexOk(k, n) == k >= -n /\ k < n
WrapIndex(k, n) == IF k < 0 THEN k + n ELSE k

\* a[:, ..., k, ..., :] = v with the int k at axis d; IndexError or
\* ValueError give Failed
SetAt(a, d, k, v) ==
    IF ~IndexOk(k, a.shape[d + 1]) THEN Failed
    ELSE IF ~BroadcastOk(v.shape, DropAt(a.shape, d)) THEN Failed
    ELSE Ok(ArrayFrom(a.shape,
                      LAMBDA idx :
                        IF idx[d + 1] = WrapIndex(k, a.shape[d + 1])
                        THEN BroadcastAt(v, DropAt(a.shape, d), DropAt(idx, d))
                        ELSE At(a, idx)))

\* the number of positions slice(0, stop) selects in an axis of length n
SliceLen(stop, n) ==
    IF stop < 0 THEN (IF n + stop < 0 THEN 0 ELSE n + stop)
    ELSE IF stop > n THEN n ELSE stop

\* a[:, ..., 0:stop, ..., :] = v with the slice at axis d
SetRange(a, d, stop, v) ==
    LET target == [a.shape EXCEPT ![d + 1] = SliceLen(stop, a.shape[d + 1])]
    IN  IF ~BroadcastOk(v.shape, target) THEN Failed
        ELSE Ok(ArrayFrom(a.shape,
                          LAMBDA idx :
                            IF idx[d + 1] < target[d + 1]
                            THEN BroadcastAt(v, target, idx)
                            ELSE At(a, idx)))

\* np.delete that drops as many positions as ind names, from the end
DeleteLast(a, ind, d) ==
    Ok(ArrayFrom([a.shape EXCEPT ![d + 1] = @ - Len(ind)], LAMBDA idx : At(a, idx)))

\* np.delete(a, ind, d) for a list ind of ints: IndexError for an index out
\* of [-n, n); a position named twice is removed once
Delete(a, ind, d) ==
    LET n    == a.shape[d + 1]
        drop == {WrapIndex(ind[k], n) : k \in 1..Len(ind)}
        keep == Without([k \in 1..n |-> k - 1], {k + 1 : k \in drop}, 1)
    IN  IF \E k \in 1..Len(ind) : ~IndexOk(ind[k], n) THEN Failed
        ELSE Ok(ArrayFrom([a.shape EXCEPT ![d + 1] = Len(keep)],
                          LAMBDA idx :
                            At(a, [idx EXCEPT ![d + 1] = keep[idx[d + 1] + 1]])))

----------------------------------------------------------------------------
(* MeasureHeader, and what the Xdata layer reads of a header.  start and
   scale are kept as float(start), float(scale): an int and the float of
   the same value are the same number. *)

MeasHeader(label, cd, start, n, scale) ==
    [kind |-> "measure", label |-> label, cds |-> <<cd>>, cdsNone |-> FALSE,
     rows |-> <<>>, ncols |-> 1, start |-> start, scale |-> scale,
     n_elem |-> n]

PyFloat(v) == PyVal("float", v, <<>>)

\* the argument column_descriptors of the MeasureHeader constructor: None,
\* a DimensionDescription object, or a value of another type
CdNone == [k |-> "None", s |-> "", id |-> 0]

(* MeasureHeader.__init__(label, start, n_elem, scale, unit, checkbank,
   column_descriptors); checkbank is a PyVal; check_bank returns None and
   the constructor then reads a name never bound *)
NewMeasureHeader(d, label, start, n, scale, unit, checkbank, cd) ==
    IF label.py # "str" THEN Raised(d)
    ELSE IF start.py \notin {"int", "float"} THEN Raised(d)
    ELSE IF n.py # "int" THEN Raised(d)
    ELSE IF scale.py \notin {"int", "float"} THEN Raised(d)
    ELSE IF cd.k = "ref" THEN
        IF d[cd.id].label # label.s THEN Raised(d)
        ELSE IF unit.kind # "None" THEN Raised(d)
        ELSE Returned(d, MeasHeader(label.s, cd.id, start.v, n.v, scale.v))
    ELSE IF cd.k # "None" THEN Raised(d)
    ELSE IF checkbank.py # "bool" THEN Raised(d)
    ELSE IF unit.kind = "None" THEN
        IF checkbank.v = 1 THEN Raised(d)
        ELSE Returned(Append(d, NewDimensionDescription(label, "numeric",
                                                        UnitNone).obj),
                      MeasHeader(label.s, Len(d) + 1, start.v, n.v, scale.v))
    ELSE IF unit.kind \in {"str", "list"} THEN
        IF checkbank.v = 1 THEN Raised(d)
        ELSE IF ~NewDimensionDescription(label, "numeric", unit).ok
             THEN Raised(d)
        ELSE Returned(Append(d, NewDimensionDescription(label, "numeric",
                                                        unit).obj),
                      MeasHeader(label.s, Len(d) + 1, start.v, n.v, scale.v))
    ELSE Raised(d)

\* an update_measureheader that keeps the scale of the receiver
update_measureheader_same_scale(d, h, start, n, scale) ==
    IF start.py \notin {"NoneType", "int", "float"} THEN Raised(d)
    ELSE IF n.py \notin {"NoneType", "int"} THEN Raised(d)
    ELSE IF scale.py \notin {"NoneType", "int", "float"} THEN Raised(d)
    ELSE NewMeasureHeader(
             d, LabelStr(h.label),
             IF start.py = "NoneType" THEN PyFloat(h.start) ELSE start,
             IF n.py = "NoneType" THEN PyInt(h.n_elem) ELSE n,
             PyFloat(h.scale), UnitNone, PyBool(0), CdRef(h.cds[1]))

\* an update_measureheader that keeps the n_elem of the receiver
update_measureheader_same_size(d, h, start, n, scale) ==
    NewMeasureHeader(d, LabelStr(h.label), PyFloat(h.start), PyInt(h.n_elem),
                     PyFloat(h.scale), UnitNone, PyBool(0), CdRef(h.cds[1]))

(* MeasureHeader.update_measureheader(start, n_elem, scale): None keeps the
   value of the receiver; the descriptor is the receiver's own *)
update_measureheader(d, h, start, n, scale) ==
    IF start.py \notin {"NoneType", "int", "float"} THEN Raised(d)
    ELSE IF n.py \notin {"NoneType", "int"} THEN Raised(d)
    ELSE IF scale.py \notin {"NoneType", "int", "float"} THEN Raised(d)
    ELSE NewMeasureHeader(
             d, LabelStr(h.label),
             IF start.py = "NoneType" THEN PyFloat(h.start) ELSE start,
             IF n.py = "NoneType" THEN PyInt(h.n_elem) ELSE n,
             IF scale.py = "NoneType" THEN PyFloat(h.scale) ELSE scale,
             UnitNone, PyBool(0), CdRef(h.cds[1]))

(* MeasureHeader.copy: a copy of the descriptor, the same fields *)
MeasureCopy(d, h) ==
    NewMeasureHeader(Append(d, DescriptorCopy(d[h.cds[1]])), LabelStr(h.label),
                     PyFloat(h.start), PyInt(h.n_elem), PyFloat(h.scale),
                     UnitNone, PyBool(0), CdRef(Len(d) + 1))

\* a copy that moves the start of a MeasureHeader
HeaderCopyShifted(d, h) ==
    IF h.kind = "measure" THEN MeasureCopy(d, [h EXCEPT !.start = @ + 1])
    ELSE CategoricalCopy(d, h)

\* Header.copy of either kind
HeaderCopy(d, h) ==
    IF h.kind = "measure" THEN MeasureCopy(d, h) ELSE CategoricalCopy(d, h)

\* Header.is_measure, is_categorical_with_values, is_undifferentiated
is_measure(h) == h.kind = "measure"
is_categorical_with_values(h) == h.kind = "categorical" /\ get_n_columns(h) > 0
is_undifferentiated(h) == h.kind = "categorical" /\ get_n_columns(h) = 0

\* Header.get_all_units: for each column 'no unit' or the conversion table
get_all_units(d, h) ==
    IF get_n_columns(h) = 0 THEN <<>>
    ELSE [i \in 1..Len(h.cds) |->
            IF d[h.cds[i]].unit = <<>> THEN <<>> ELSE d[h.cds[i]].all_units]

\* the descriptors at the same place of two headers have the same label,
\* type, unit and conversion table
SameDescriptors(d, h, o) ==
    \A i \in 1..Len(h.cds) :
       /\ d[h.cds[i]].label = d[o.cds[i]].label
       /\ d[h.cds[i]].dimension_type = d[o.cds[i]].dimension_type
       /\ d[h.cds[i]].unit = d[o.cds[i]].unit
       /\ d[h.cds[i]].all_units = d[o.cds[i]].all_units

(* h == o for two headers: MeasureHeader.__eq__ and
   CategoricalHeader.__eq__ *)
HeaderEq(d, h, o) ==
    IF h.kind = "measure"
    THEN /\ o.kind = "measure"
         /\ h.label = o.label
         /\ h.start = o.start
         /\ h.n_elem = o.n_elem
         /\ h.scale = o.scale
         /\ SameDescriptors(d, h, o)
    ELSE /\ o.kind = "categorical"
         /\ h.label = o.label
         /\ is_categorical_with_values(h) = is_categorical_with_values(o)
         /\ is_categorical_with_values(h)
              => (Len(h.cds) = Len(o.cds) /\ SameDescriptors(d, h, o))
         /\ Len(h.rows) = Len(o.rows)
         /\ h.ncols = o.ncols
         /\ h.rows = o.rows

(* Header.check_header_update(flag, ind, new_header): TRUE when the call
   returns, FALSE when it raises.  hs is the heap of headers, new_header a
   Python value. *)

\* len(v) is defined
HasLen(v) == v.py \in {"list", "tuple"}

\* v[i] is defined and has a len (i counted from 0)
ItemHasLen(v, i) == HasLen(v) /\ i < Len(v.t) /\ HasLen(v.t[i + 1])

\* self._n_elem is an attribute of a MeasureHeader only: the constructor of
\* CategoricalHeader never binds it, and reading it raises
Has_n_elem(self) == self.kind = "measure"

\* new_header._column_descriptors[:len(self._column_descriptors)]
\*   != self._column_descriptors raises on None, and compares the
\* descriptors as objects: DimensionDescription has no __eq__
SubLabelsPreserved(self, new) ==
    /\ ~self.cdsNone
    /\ ~new.cdsNone
    /\ Len(new.cds) >= Len(self.cds)
    /\ SubSeq(new.cds, 1, Len(self.cds)) = self.cds

\* the branches on flag; ['chg' 'perm'] is the list of the one string
\* 'chgperm'
SizeChecked(self, flag, ind, new) ==
    IF flag = "new"
    THEN Has_n_elem(self) /\ HasLen(ind)
         /\ n_elem(new) = self.n_elem + Len(ind.t)
    ELSE IF flag \in {"chgperm"}
    THEN Has_n_elem(self) /\ n_elem(new) = self.n_elem
    ELSE IF flag = "remove"
    THEN Has_n_elem(self) /\ HasLen(ind)
         /\ n_elem(new) = self.n_elem - Len(ind.t)
    ELSE IF flag = "chg&new"
    THEN Has_n_elem(self) /\ ItemHasLen(ind, 1)
         /\ n_elem(new) = self.n_elem + Len(ind.t[2].t)
    ELSE IF flag = "chg&rm"
    THEN Has_n_elem(self) /\ ItemHasLen(ind, 0)
         /\ n_elem(new) = self.n_elem + Len(ind.t[1].t)
    ELSE FALSE

HeaderUpdateChecked(self, flag, ind, new) ==
    IF (self.kind = "categorical") # (new.kind = "categorical") THEN FALSE
    ELSE IF new.label # self.label THEN FALSE
    ELSE IF ~SubLabelsPreserved(self, new) THEN FALSE
    ELSE SizeChecked(self, flag, ind, new)

check_header_update(hs, self, flag, ind, new_header) ==
    IF new_header.py # "Header" THEN FALSE
    ELSE IF flag = "chgdim" THEN TRUE
    ELSE HeaderUpdateChecked(self, flag, ind, hs[new_header.v])

\* the flags the older variant of the method lists
OlderFlags == {"all", "chgdim", "new", "remove", "chg", "chg&new", "chg&rrm"}

(* the older variant of check_header_update: isinstance(ind, np.array) has
   a function where a type must stand, and raises for every ind *)
check_header_update_older(flag, ind, newheader) ==
    IF newheader.py # "Header" THEN FALSE
    ELSE IF flag \notin OlderFlags THEN FALSE
    ELSE FALSE

----------------------------------------------------------------------------
(* Xdata.  The objects live in three heaps: descriptors, headers and numpy
   arrays; an Xdata object holds references into them.  A call works on
   the heaps H = [descs, hdrs, arrs] and leaves them changed also when it
   raises. *)

Heap(d, h, a) == [descs |-> d, hdrs |-> h, arrs |-> a]

XdataObj(name, data, headers, data_descriptor) ==
    [name |-> name, data |-> data, headers |-> headers,
     data_descriptor |-> data_descriptor]

XRaised(H)         == [ok |-> FALSE, heap |-> H]

\* the objects of heap H0 as they are in heap H1: what a call that raised
\* leaves of the heap, the objects it made being lost
Kept(H0, H1) ==
    Heap(SubSeq(H1.descs, 1, Len(H0.descs)), SubSeq(H1.hdrs, 1, Len(H0.hdrs)),
         SubSeq(H1.arrs, 1, Len(H0.arrs)))
XReturned(H, o, f) == [ok |-> TRUE, heap |-> H, obj |-> o, flag |-> f]

\* references to an array and to a header, as arguments
ArrRef(id) == PyVal("ndarray", id, <<>>)
HdrRef(id) == PyVal("Header", id, <<>>)

(* Xdata.__init__(name, data, headers, unit): the array and the headers
   given are kept, not copied *)
NewXdata(H, name, data, headers, unit) ==
    IF name.py # "str" THEN XRaised(H)
    ELSE IF data.py # "ndarray" THEN XRaised(H)
    ELSE IF headers.py # "list" THEN XRaised(H)
    ELSE IF Len(headers.t) # Len(H.arrs[data.v].shape) THEN XRaised(H)
    ELSE IF \E k \in 1..Len(headers.t) : headers.t[k].py # "Header"
         THEN XRaised(H)
    ELSE IF unit.kind \notin {"str", "list", "None"} THEN XRaised(H)
    ELSE IF ~NewDimensionDescription(name, "numeric", unit).ok THEN XRaised(H)
    ELSE XReturned(
             [H EXCEPT !.descs =
                 Append(H.descs,
                        NewDimensionDescription(name, "numeric", unit).obj)],
             XdataObj(name.s, data.v,
                      [k \in 1..Len(headers.t) |-> headers.t[k].v],
                      Len(H.descs) + 1),
             "")

\* the headers ids[i..] copied one by one onto the end of the heap; acc
\* holds the copies made so far
RECURSIVE CopyHeaders(_, _, _, _)
RECURSIVE CopiedHeader(_, _, _, _, _)
CopyHeaders(H, ids, i, acc) ==
    IF i > Len(ids) THEN XReturned(H, acc, "")
    ELSE CopiedHeader(H, ids, i, acc, HeaderCopy(H.descs, H.hdrs[ids[i]]))

\* r is what ids[i].copy() gave
CopiedHeader(H, ids, i, acc, r) ==
    IF ~r.ok THEN XRaised(H)
    ELSE CopyHeaders([H EXCEPT !.descs = r.descs,
                               !.hdrs = Append(H.hdrs, r.obj)],
                     ids, i + 1, Append(acc, Len(H.hdrs) + 1))

\* the list [unit, value, unit, value, ...] made of a conversion table
UnitListOf(all_units) ==
    UnitList([k \in 1..(2 * Len(all_units)) |->
                IF k % 2 = 1 THEN UnitItem(all_units[(k + 1) \div 2].unit, FALSE, 0)
                ELSE UnitItem("", TRUE, all_units[k \div 2].value)])

\* the outcome r of a call made on a heap grown from H: when it raised, the
\* objects made on the way are lost
OnHeap(H, r) == IF r.ok THEN r ELSE XRaised(H)

\* Xdata(self.name, data, headers, unit) of copy: c holds the copies of the
\* headers, the copy of the array is the last array of H but one heap later
CopyWithHeaders(H, x, c) ==
    IF ~c.ok THEN XRaised(H)
    ELSE OnHeap(H, NewXdata(c.heap, LabelStr(x.name), ArrRef(Len(H.arrs) + 1),
                            PyList([k \in 1..Len(c.obj) |-> HdrRef(c.obj[k])]),
                            IF H.descs[x.data_descriptor].all_units = <<>>
                            THEN UnitNone
                            ELSE UnitListOf(H.descs[x.data_descriptor].all_units)))

\* a copy that shares the array, the headers and the descriptor of x
XdataCopyAliasing(H, x) == XReturned(H, x, "")

(* Xdata.copy: a copy of the array, a copy of each header, a new
   descriptor of the data *)
XdataCopy(H, x) ==
    CopyWithHeaders(H, x,
                    CopyHeaders([H EXCEPT !.arrs = Append(H.arrs, H.arrs[x.data])],
                                x.headers, 1, <<>>))

\* the list [pd.Series([])] * n
EmptySeries(n) == PyList([k \in 1..n |-> Series(<<>>)])

(* update_data: the header of a dimension whose length has changed to len;
   self is the header of the receiver, oldh its copy in newxdata *)
ResizedHeader(d, self, oldh, len) ==
    LET n == len - n_elem(self)
    IN  IF is_undifferentiated(self)
        THEN update_categoricalheader(
                 d, oldh,
                 IF n > 0 THEN "new" ELSE "rm",
                 IF n > 0 THEN PyNone ELSE PyVal("range", n, <<>>),
                 IF n > 0 THEN EmptySeries(n) ELSE PyNone)
        ELSE update_measureheader(d, oldh, PyNone, PyInt(len), PyNone)

(* The loop of update_data over the dimensions from dim (0-based) on: y is
   newxdata, x the receiver, shape the shape of the new array. *)
RECURSIVE UpdateDataHeaders(_, _, _, _, _)
RECURSIVE UpdatedDataHeader(_, _, _, _, _, _)
UpdateDataHeaders(H, x, y, shape, dim) ==
    IF dim >= Len(x.headers) THEN XReturned(H, y, "")
    ELSE IF shape[dim + 1] = n_elem(H.hdrs[x.headers[dim + 1]])
    THEN UpdateDataHeaders(H, x, y, shape, dim + 1)
    ELSE IF is_categorical_with_values(H.hdrs[x.headers[dim + 1]])
    THEN XRaised(H)
    ELSE UpdatedDataHeader(H, x, y, shape, dim,
                           ResizedHeader(H.descs, H.hdrs[x.headers[dim + 1]],
                                         H.hdrs[y.headers[dim + 1]],
                                         shape[dim + 1]))

\* newxdata.headers[dim] = h, where r is what the update of the header gave
UpdatedDataHeader(H, x, y, shape, dim, r) ==
    IF ~r.ok THEN XRaised([H EXCEPT !.descs = r.descs])
    ELSE UpdateDataHeaders([H EXCEPT !.descs = r.descs,
                                     !.hdrs = Append(H.hdrs, r.obj)],
                           x, [y EXCEPT !.headers[dim + 1] = Len(H.hdrs) + 1],
                           shape, dim + 1)

\* newxdata._data = newdata, where r is what the loop over the dimensions gave
DataSet(H, newdata, r) ==
    IF ~r.ok THEN XRaised(Kept(H, r.heap))
    ELSE XReturned(r.heap, [r.obj EXCEPT !.data = newdata.v], "")

\* update_data from newxdata = self.copy() on: c is what the copy gave
DataUpdated(H, x, newdata, c) ==
    IF ~c.ok THEN c
    ELSE DataSet(H, newdata,
                 UpdateDataHeaders(c.heap, x, c.obj, H.arrs[newdata.v].shape, 0))

(* Xdata.update_data(newdata) *)
update_data(H, x, newdata) ==
    IF newdata.py # "ndarray" THEN XRaised(H)
    ELSE IF Len(H.arrs[newdata.v].shape) # Len(x.headers) THEN XRaised(H)
    ELSE DataUpdated(H, x, newdata, XdataCopy(H, x))

\* a dataslice has the rank of the data less one, and the length of the
\* data on the axes before dim and on the axes after dim + 1: the length
\* of axis dim of the slice is not looked at
SliceChecked(s, shape, dim) ==
    /\ Len(s.shape) = Len(shape) - 1
    /\ \A j \in 0..(Len(s.shape) - 1) :
         /\ j < dim => s.shape[j + 1] = shape[j + 1]
         /\ j > dim => s.shape[j + 1] = shape[j + 2]

\* the checks of a modified header that is categorical with values against
\* the old header: columns, units, label, labels of the columns
ValuesHeaderChecked(d, old, m) ==
    /\ get_n_columns(old) = get_n_columns(m)
    /\ get_all_units(d, old) = get_all_units(d, m)
    /\ old.label = m.label
    /\ \A i \in 1..get_n_columns(old) :
         d[old.cds[i]].label = d[m.cds[i]].label

\* the header check of 'chg' and 'perm'
SameSizeHeaderChecked(d, old, m) ==
    IF is_measure(m) \/ is_undifferentiated(m) THEN HeaderEq(d, m, old)
    ELSE n_elem(old) = n_elem(m) /\ ValuesHeaderChecked(d, old, m)

\* modified_header.is_measure != oldheader.is_measure |
\*   modified_header.is_undifferentiated != oldheader.is_undifferentiated
\* as Python reads it:  a != (b | c) != e,  a chain of two comparisons
KindTestRaises(old, m) ==
    LET bc == is_measure(old) \/ is_undifferentiated(m)
    IN  (is_measure(m) # bc) /\ (bc # is_undifferentiated(old))

\* the header check of 'new', 'remove', 'chg&new', 'chg&rm': n is the number
\* of elements the header must have
ResizedHeaderChecked(d, old, m, n) ==
    /\ ~KindTestRaises(old, m)
    /\ n_elem(m) = n
    /\ is_categorical_with_values(m) => ValuesHeaderChecked(d, old, m)

\* a loop that raised: the array as far as it was written
Partial(a) == [ok |-> FALSE, obj |-> a]

\* the heap after newxdata._data, the array of the copy c, was written to
Written(c, a) == [c.heap EXCEPT !.arrs[c.obj.data] = a]

\* a loop that writes each changed slice one position after its index
RECURSIVE WriteChangedAfter(_, _, _, _, _, _, _, _)
WriteChangedAfter(heap, a, shape, dim, ind, slices, i, count) ==
    IF i >= count THEN Ok(a)
    ELSE IF i + 1 > Len(ind) \/ i + 1 > Len(slices) THEN Partial(a)
    ELSE IF ind[i + 1].py # "int" THEN Partial(a)
    ELSE IF slices[i + 1].py # "ndarray" THEN Partial(a)
    ELSE IF ~SliceChecked(heap[slices[i + 1].v], shape, dim) THEN Partial(a)
    ELSE IF ~IndexOk(ind[i + 1].v, a.shape[dim + 1]) THEN Partial(a)
    ELSE LET w == SetAt(a, dim,
                        (WrapIndex(ind[i + 1].v, a.shape[dim + 1]) + 1)
                          % a.shape[dim + 1],
                        heap[slices[i + 1].v])
         IN  IF ~w.ok THEN Partial(a)
             ELSE WriteChangedAfter(heap, w.obj, shape, dim, ind, slices, i + 1,
                                    count)

(* The loop that writes changed slices: for i in range(count), checks of
   ind[i] and dataslices[i], then  a[.., ind[i], ..] = dataslices[i].
   ind and slices are lists of PyVals; reading past their end raises. *)
RECURSIVE WriteChanged(_, _, _, _, _, _, _, _)
WriteChanged(heap, a, shape, dim, ind, slices, i, count) ==
    IF i >= count THEN Ok(a)
    ELSE IF i + 1 > Len(ind) \/ i + 1 > Len(slices) THEN Partial(a)
    ELSE IF ind[i + 1].py # "int" THEN Partial(a)
    ELSE IF slices[i + 1].py # "ndarray" THEN Partial(a)
    ELSE IF ~SliceChecked(heap[slices[i + 1].v], shape, dim) THEN Partial(a)
    ELSE LET w == SetAt(a, dim, ind[i + 1].v, heap[slices[i + 1].v])
         IN  IF ~w.ok THEN Partial(a)
             ELSE WriteChanged(heap, w.obj, shape, dim, ind, slices, i + 1, count)

(* The loop that writes new slices:  a[.., n + i, ..] = np.array([s]) *)
RECURSIVE WriteNew(_, _, _, _, _, _, _)
WriteNew(heap, a, shape, dim, n, slices, i) ==
    IF i >= Len(slices) THEN Ok(a)
    ELSE IF slices[i + 1].py # "ndarray" THEN Failed
    ELSE IF ~SliceChecked(heap[slices[i + 1].v], shape, dim) THEN Failed
    ELSE LET s == heap[slices[i + 1].v]
             w == SetAt(a, dim, n + i, NdArray(<<1>> \o s.shape, s.elems))
         IN  IF ~w.ok THEN Failed
             ELSE WriteNew(heap, w.obj, shape, dim, n, slices, i + 1)

\* np.zeros of the shape grown by k along dim, the old data left out
GrownEmpty(data, dim, k, n) ==
    Ok(Zeros([data.shape EXCEPT ![dim + 1] = @ + k]))

\* np.zeros of the shape grown by k along dim, the old data written in
\* [0, n) of dim
Grown(data, dim, k, n) ==
    SetRange(Zeros([data.shape EXCEPT ![dim + 1] = @ + k]), dim, n, data)

(* The loop of 'perm':  for i in range(len(ind)): if i != ind[i]:
   a[permuteslice] = data[oldslice], both indices lists.  A list that holds
   only an int selects along the first axis; a list that holds slices is
   read as a tuple by a numpy that still does so (legacy) and raises
   otherwise. *)
RECURSIVE WritePermuted(_, _, _, _, _, _)
WritePermuted(a, data, dim, ind, i, legacy) ==
    IF i >= Len(ind) THEN Ok(a)
    ELSE IF ind[i + 1].py # "int" THEN Partial(a)
    ELSE IF ind[i + 1].v = i THEN WritePermuted(a, data, dim, ind, i + 1, legacy)
    ELSE IF Len(data.shape) > 1 /\ ~legacy THEN Partial(a)
    ELSE IF ~IndexOk(i, data.shape[dim + 1]) THEN Partial(a)
    ELSE LET w == SetAt(a, dim, ind[i + 1].v,
                        ArrayFrom(DropAt(data.shape, dim),
                                  LAMBDA idx : At(data, InsertAt(idx, dim, i))))
         IN  IF ~w.ok THEN Partial(a)
             ELSE WritePermuted(w.obj, data, dim, ind, i + 1, legacy)

\* ind is None or a list
NoneOrList(ind) == ind.py \in {"NoneType", "list"}

\* the Xdata returned: the copy y with its data in a new array a and the
\* modified header at dim
WithData(c, a, dim, mh) ==
    XReturned(Written(c, a), [c.obj EXCEPT !.headers[dim + 1] = mh.v], "")

\* the Xdata returned: the copy y with a new array a as its data and the
\* modified header at dim
WithNewData(H, c, a, dim, mh) ==
    XReturned([H EXCEPT !.arrs = Append(@, a)],
              [c.obj EXCEPT !.data = Len(H.arrs) + 1,
                            !.headers[dim + 1] = mh.v], "")

\* the end of 'all' and 'chgdata': c is newxdata = self.copy()
DataReplaced(H, c, dataslices, flag) ==
    IF ~c.ok THEN XRaised(H)
    ELSE XReturned(c.heap, [c.obj EXCEPT !.data = dataslices.v], flag)

\* newxdata._headers[dim] = modified_header
WithHeader(r, dim, mh) ==
    IF ~r.ok THEN r ELSE [r EXCEPT !.obj.headers[dim + 1] = mh.v]

(* flag 'all' *)
XUpdateAll(H, x, dim, ind, dataslices, mh) ==
    LET old  == H.hdrs[x.headers[dim + 1]]
        data == H.arrs[x.data]
        m    == H.hdrs[mh.v]
        ds   == H.arrs[dataslices.v]
    IN  IF ~NoneOrList(ind) THEN XRaised(H)
        ELSE IF mh.py # "Header" THEN XRaised(H)
        ELSE IF dataslices.py # "ndarray" THEN XRaised(H)
        ELSE IF Len(ds.shape) # Len(x.headers) THEN XRaised(H)
        ELSE IF \E n \in 1..Len(ds.shape) :
                   n # dim + 1 /\ ds.shape[n] # data.shape[n]
             THEN XRaised(H)
        ELSE IF ds.shape[dim + 1] # n_elem(m) THEN XRaised(H)
        ELSE IF m.label # old.label THEN XRaised(H)
        \* modified_header.unit: a Header has no attribute unit
        ELSE IF is_measure(old) THEN XRaised(H)
        ELSE WithHeader(
                 DataReplaced(H, XdataCopy(H, x), dataslices,
                              IF HeaderEq(H.descs, old, m) THEN "chgdata"
                              ELSE "all"),
                 dim, mh)

(* flag 'chgdata' *)
XUpdateChgdata(H, x, dim, ind, dataslices, mh) ==
    IF ~(mh.py = "NoneType"
         \/ (mh.py = "Header"
             /\ HeaderEq(H.descs, H.hdrs[mh.v], H.hdrs[x.headers[dim + 1]])))
    THEN XRaised(H)
    ELSE IF ~NoneOrList(ind) THEN XRaised(H)
    ELSE IF dataslices.py # "ndarray" THEN XRaised(H)
    ELSE IF H.arrs[dataslices.v].shape # H.arrs[x.data].shape THEN XRaised(H)
    ELSE DataReplaced(H, XdataCopy(H, x), dataslices, "chgdata")

\* the end of 'chg' and 'perm': w is what the loop that writes into the
\* array of newxdata (c) gave
DataWritten(H, c, dim, mh, w) ==
    IF ~w.ok THEN XRaised(Kept(H, Written(c, w.obj)))
    ELSE WithData(c, w.obj, dim, mh)

\* the end of 'new', 'remove' and 'chg&new': w is what the making of the
\* new array gave
DataResized(H, c, dim, mh, w) ==
    IF ~w.ok THEN XRaised(H)
    ELSE WithNewData(c.heap, c, w.obj, dim, mh)

\* 'chg' from newxdata = self.copy() on
ChgCopied(H, x, dim, ind, dataslices, mh, c) ==
    IF ~c.ok THEN XRaised(H)
    ELSE DataWritten(H, c, dim, mh,
                     WriteChanged(c.heap.arrs, c.heap.arrs[c.obj.data],
                                  H.arrs[x.data].shape, dim, ind.t,
                                  dataslices.t, 0, Len(ind.t)))

(* flag 'chg' *)
XUpdateChg(H, x, dim, ind, dataslices, mh) ==
    IF mh.py # "Header" THEN XRaised(H)
    ELSE IF ~SameSizeHeaderChecked(H.descs, H.hdrs[x.headers[dim + 1]],
                                   H.hdrs[mh.v])
    THEN XRaised(H)
    ELSE IF ind.py # "list" THEN XRaised(H)
    ELSE IF dataslices.py # "list" THEN XRaised(H)
    ELSE IF Len(ind.t) # Len(dataslices.t) THEN XRaised(H)
    ELSE ChgCopied(H, x, dim, ind, dataslices, mh, XdataCopy(H, x))

\* 'new' from the new array of zeros and old data (g) on
NewGrown(H, x, dim, dataslices, mh, c, g) ==
    IF ~g.ok THEN XRaised(H)
    ELSE DataResized(H, c, dim, mh,
                     WriteNew(H.arrs, g.obj, H.arrs[x.data].shape, dim,
                              n_elem(H.hdrs[x.headers[dim + 1]]),
                              dataslices.t, 0))

\* 'new' from newxdata = self.copy() on
NewCopied(H, x, dim, dataslices, mh, c) ==
    IF ~c.ok THEN XRaised(H)
    ELSE NewGrown(H, x, dim, dataslices, mh, c,
                  Grown(H.arrs[x.data], dim, Len(dataslices.t),
                        n_elem(H.hdrs[x.headers[dim + 1]])))

(* flag 'new' *)
XUpdateNew(H, x, dim, ind, dataslices, mh) ==
    LET old  == H.hdrs[x.headers[dim + 1]]
        data == H.arrs[x.data]
    IN  IF ~NoneOrList(ind) THEN XRaised(H)
        ELSE IF dataslices.py # "list" THEN XRaised(H)
        ELSE IF \E k \in 1..Len(dataslices.t) :
                   \/ dataslices.t[k].py # "ndarray"
                   \/ ~SliceChecked(H.arrs[dataslices.t[k].v], data.shape, dim)
             THEN XRaised(H)
        ELSE IF mh.py # "Header" THEN XRaised(H)
        ELSE IF ~ResizedHeaderChecked(H.descs, old, H.hdrs[mh.v],
                                      n_elem(old) + Len(dataslices.t))
             THEN XRaised(H)
        ELSE NewCopied(H, x, dim, dataslices, mh, XdataCopy(H, x))

\* 'remove' from newxdata = self.copy() on
RemoveCopied(H, dim, ind, mh, c) ==
    IF ~c.ok THEN XRaised(H)
    ELSE DataResized(H, c, dim, mh,
                     Delete(c.heap.arrs[c.obj.data],
                            [k \in 1..Len(ind.t) |-> ind.t[k].v], dim))

(* flag 'remove' *)
XUpdateRemove(H, x, dim, ind, dataslices, mh) ==
    IF ind.py # "list" THEN XRaised(H)
    ELSE IF ~NoValues(dataslices) THEN XRaised(H)
    ELSE IF \E k \in 1..Len(ind.t) : ind.t[k].py # "int" THEN XRaised(H)
    ELSE IF mh.py # "Header" THEN XRaised(H)
    ELSE IF ~ResizedHeaderChecked(H.descs, H.hdrs[x.headers[dim + 1]],
                                  H.hdrs[mh.v],
                                  n_elem(H.hdrs[x.headers[dim + 1]]) - Len(ind.t))
    THEN XRaised(H)
    ELSE RemoveCopied(H, dim, ind, mh, XdataCopy(H, x))

\* 'chg&new' from the changed slices written (w) on
ChgNewChanged(H, x, dim, dataslices, mh, c, w) ==
    IF ~w.ok THEN XRaised(H)
    ELSE DataResized(H, c, dim, mh,
                     WriteNew(H.arrs, w.obj, H.arrs[x.data].shape, dim,
                              n_elem(H.hdrs[x.headers[dim + 1]]),
                              dataslices.t[2].t, 0))

\* 'chg&new' from the new array of zeros and old data (g) on
ChgNewGrown(H, x, dim, indchg, dataslices, mh, c, g) ==
    IF ~g.ok THEN XRaised(H)
    ELSE ChgNewChanged(H, x, dim, dataslices, mh, c,
                       WriteChanged(H.arrs, g.obj, H.arrs[x.data].shape, dim,
                                    indchg, dataslices.t[1].t, 0, Len(indchg)))

\* 'chg&new' from newxdata = self.copy() on;
\* shape[dim] += len(dataslices), the list of the two lists
ChgNewCopied(H, x, dim, indchg, dataslices, mh, c) ==
    IF ~c.ok THEN XRaised(H)
    ELSE ChgNewGrown(H, x, dim, indchg, dataslices, mh, c,
                     Grown(H.arrs[x.data], dim, Len(dataslices.t),
                           n_elem(H.hdrs[x.headers[dim + 1]])))

(* flag 'chg&new' *)
XUpdateChgNew(H, x, dim, ind, dataslices, mh) ==
    LET old    == H.hdrs[x.headers[dim + 1]]
        indchg == IF ind.t[1].py = "list" THEN ind.t[1].t ELSE ind.t
    IN  IF dataslices.py # "list" THEN XRaised(H)
        ELSE IF Len(dataslices.t) # 2 THEN XRaised(H)
        ELSE IF ~(dataslices.t[1].py = "list" /\ dataslices.t[2].py = "list")
             THEN XRaised(H)
        ELSE IF ind.py # "list" THEN XRaised(H)
        ELSE IF ind.t = <<>> THEN XRaised(H)
        ELSE IF ind.t[1].py = "list"
                /\ (Len(ind.t) # 2 \/ ~NoneOrList(ind.t[2]))
             THEN XRaised(H)
        ELSE IF mh.py # "Header" THEN XRaised(H)
        ELSE IF ~ResizedHeaderChecked(H.descs, old, H.hdrs[mh.v],
                                      n_elem(old) + Len(dataslices.t[2].t))
             THEN XRaised(H)
        ELSE IF Len(indchg) # Len(dataslices.t[1].t) THEN XRaised(H)
        ELSE ChgNewCopied(H, x, dim, indchg, dataslices, mh, XdataCopy(H, x))

\* 'chg&rm' from np.delete (r) on
ChgRmRemoved(H, c, dim, mh, w, r) ==
    IF ~r.ok THEN XRaised(Kept(H, Written(c, w.obj)))
    ELSE WithNewData(Written(c, w.obj), c, r.obj, dim, mh)

\* 'chg&rm' from the changed slices written (w) on
ChgRmChanged(H, dim, ind, mh, c, w) ==
    IF ~w.ok THEN XRaised(Kept(H, Written(c, w.obj)))
    ELSE IF \E k \in 1..Len(ind.t[2].t) : ind.t[2].t[k].py # "int"
    THEN XRaised(Kept(H, Written(c, w.obj)))
    ELSE ChgRmRemoved(H, c, dim, mh, w,
                      Delete(w.obj,
                             [k \in 1..Len(ind.t[2].t) |-> ind.t[2].t[k].v],
                             dim))

\* 'chg&rm' from newxdata = self.copy() on;
\* for i in range(len(ind)), the list of the two lists
ChgRmCopied(H, x, dim, ind, dataslices, mh, c) ==
    IF ~c.ok THEN XRaised(H)
    ELSE ChgRmChanged(H, dim, ind, mh, c,
                      WriteChanged(c.heap.arrs, c.heap.arrs[c.obj.data],
                                   H.arrs[x.data].shape, dim, ind.t[1].t,
                                   dataslices.t, 0, Len(ind.t)))

(* flag 'chg&rm' *)
XUpdateChgRm(H, x, dim, ind, dataslices, mh) ==
    IF dataslices.py # "list" THEN XRaised(H)
    ELSE IF ind.py # "list" THEN XRaised(H)
    ELSE IF Len(ind.t) # 2 THEN XRaised(H)
    ELSE IF ~(ind.t[1].py = "list" /\ ind.t[2].py = "list") THEN XRaised(H)
    ELSE IF mh.py # "Header" THEN XRaised(H)
    ELSE IF ~ResizedHeaderChecked(H.descs, H.hdrs[x.headers[dim + 1]],
                                  H.hdrs[mh.v],
                                  n_elem(H.hdrs[x.headers[dim + 1]])
                                    - Len(ind.t[2].t))
    THEN XRaised(H)
    ELSE IF Len(ind.t[1].t) # Len(dataslices.t) THEN XRaised(H)
    ELSE ChgRmCopied(H, x, dim, ind, dataslices, mh, XdataCopy(H, x))

\* 'perm' from newxdata = self.copy() on
PermCopied(H, x, dim, ind, mh, legacy, c) ==
    IF ~c.ok THEN XRaised(H)
    ELSE DataWritten(H, c, dim, mh,
                     WritePermuted(c.heap.arrs[c.obj.data], H.arrs[x.data], dim,
                                   ind.t, 0, legacy))

(* flag 'perm' *)
XUpdatePerm(H, x, dim, ind, dataslices, mh, legacy) ==
    LET old == H.hdrs[x.headers[dim + 1]]
    IN  IF dataslices.py # "NoneType" THEN XRaised(H)
        ELSE IF mh.py # "Header" THEN XRaised(H)
        ELSE IF ~SameSizeHeaderChecked(H.descs, old, H.hdrs[mh.v]) THEN XRaised(H)
        ELSE IF ind.py # "list" THEN XRaised(H)
        ELSE IF Len(ind.t) # n_elem(old) THEN XRaised(H)
        ELSE IF \E i \in 0..(n_elem(old) - 1) :
                   \A k \in 1..Len(ind.t) : ind.t[k] # PyInt(i)
             THEN XRaised(H)
        ELSE PermCopied(H, x, dim, ind, mh, legacy, XdataCopy(H, x))

\* the flags of update_xdata
XdataFlags ==
    {"all", "chgdata", "chg", "new", "remove", "chg&new", "chg&rm", "perm"}

\* the branch of update_xdata for a flag
FlagBranch(H, x, flag, dim, ind, dataslices, mh, legacy) ==
    IF flag = "all" THEN XUpdateAll(H, x, dim, ind, dataslices, mh)
    ELSE IF flag = "chgdata" THEN XUpdateChgdata(H, x, dim, ind, dataslices, mh)
    ELSE IF flag = "chg" THEN XUpdateChg(H, x, dim, ind, dataslices, mh)
    ELSE IF flag = "new" THEN XUpdateNew(H, x, dim, ind, dataslices, mh)
    ELSE IF flag = "remove" THEN XUpdateRemove(H, x, dim, ind, dataslices, mh)
    ELSE IF flag = "chg&new" THEN XUpdateChgNew(H, x, dim, ind, dataslices, mh)
    ELSE IF flag = "chg&rm" THEN XUpdateChgRm(H, x, dim, ind, dataslices, mh)
    ELSE XUpdatePerm(H, x, dim, ind, dataslices, mh, legacy)

\* return (newxdata, flag): 'all' gives the flag itself
WithFlag(r, flag) == IF r.ok /\ r.flag = "" THEN [r EXCEPT !.flag = flag] ELSE r

(* Xdata.update_xdata(flag, dim, ind, dataslices, modified_header) on the
   Xdata x with heap H: the heap after the call and, when it returned, the
   new Xdata and the flag returned with it.  legacy tells how the numpy of
   the build reads a list of slices used as an index. *)
update_xdata(H, x, flag, dim, ind, dataslices, mh, legacy) ==
    IF dim.py # "int" THEN XRaised(H)
    ELSE IF dim.v < 0 \/ dim.v >= Len(x.headers) THEN XRaised(H)
    ELSE IF flag \notin XdataFlags THEN XRaised(H)
    ELSE WithFlag(FlagBranch(H, x, flag, dim.v, ind, dataslices, mh, legacy),
                  flag)

----------------------------------------------------------------------------
(* The calls of the Xdata layer.  The caller has built the headers of its
   axes; it builds an Xdata on them, makes the headers it gives as
   modified_header, and updates. *)

\* most calls a caller makes
MaxXCalls == 3
\* most axes of the data
MaxDims == 2
\* the number of elements of the headers the caller starts with
AxisLen == 3

\* the kinds of header of an axis
AxisKinds == {"values", "undifferentiated", "measure"}

AxisLabel(i) == IF i = 1 THEN "fruits" ELSE "time"

\* CategoricalHeader(label, [column], values = DataFrame of one column
\* holding first, first + 1, ...)
ValuesHeader(d, label, column, n, first) ==
    NewCategoricalHeader(d, LabelStr(label), CdsList(<<CdStr(column)>>), PyNone,
                         DataFrame([k \in 1..n |-> <<PyInt(first + k - 1)>>], 1))

\* CategoricalHeader(label, n_elem = n)
UndifferentiatedHeader(d, label, n) ==
    NewCategoricalHeader(d, LabelStr(label), CdsNone, PyInt(n), PyNone)

\* MeasureHeader(label, start, n, 2)
TimeHeader(d, label, start, n) ==
    NewMeasureHeader(d, LabelStr(label), PyInt(start), PyInt(n), PyInt(2),
                     UnitNone, PyBool(0), CdNone)

\* the header of a kind the caller builds for an axis
AxisHeader(d, kind, label, n) ==
    IF kind = "values" THEN ValuesHeader(d, label, "name", n, 1)
    ELSE IF kind = "undifferentiated" THEN UndifferentiatedHeader(d, label, n)
    ELSE TimeHeader(d, label, 1, n)

\* the heap after the caller has built the headers of axes i.. of the kinds
RECURSIVE AxisHeaders(_, _, _)
AxisHeaders(H, kinds, i) ==
    IF i > Len(kinds) THEN H
    ELSE LET r == AxisHeader(H.descs, kinds[i], AxisLabel(i), AxisLen)
         IN  AxisHeaders([H EXCEPT !.descs = r.descs,
                                   !.hdrs = Append(@, r.obj)],
                         kinds, i + 1)

\* what is recorded of a call of the Xdata layer
XCall(op, rcv, flag, dim, ind, dataslices, mh, legacy) ==
    [op |-> op, rcv |-> rcv, flag |-> flag, dim |-> dim, ind |-> ind,
     values |-> dataslices, mh |-> mh, legacy |-> legacy,
     ok |-> FALSE, res |-> 0, ret |-> "", changed |-> FALSE, n |-> 0,
     made |-> 0]

Init ==
    \E nd \in 1..MaxDims :
      \E kinds \in [1..nd -> AxisKinds] :
        LET H == AxisHeaders(Heap(<<>>, <<>>, <<>>), kinds, 1)
        IN  /\ descs = H.descs
            /\ hdrs = H.hdrs
            /\ arrs = <<>>
            /\ xds = <<>>
            /\ last = [XCall("init", 0, "", PyNone, PyNone, PyNone, PyNone, TRUE)
                         EXCEPT !.ok = TRUE]

\* the heaps now
Now == Heap(descs, hdrs, arrs)

\* a caller goes on after a call that returned, and after one that raised
\* when the heap is no longer what it was
XGoesOn == (last.ok \/ last.changed) /\ last.n < MaxXCalls

\* the outcome of a call that returns an Xdata: the heaps are those the call
\* left; the arrays the caller made for a call that raised are lost
XOutcome(r, call) ==
    LET after == IF r.ok THEN r.heap ELSE Kept(Now, r.heap)
    IN  /\ descs' = after.descs
        /\ hdrs' = after.hdrs
        /\ arrs' = after.arrs
        /\ xds' = IF r.ok THEN Append(xds, r.obj) ELSE xds
        /\ last' = [call EXCEPT !.ok = r.ok,
                                !.res = IF r.ok THEN Len(xds) + 1 ELSE 0,
                                !.ret = IF r.ok THEN r.flag ELSE "",
                                !.changed = (Kept(Now, r.heap) # Now),
                                !.n = last.n + 1,
                                !.made = last.made]

\* the outcome of a call that returns a header
HOutcome(r, call) ==
    /\ descs' = r.descs
    /\ hdrs' = IF r.ok THEN Append(hdrs, r.obj) ELSE hdrs
    /\ UNCHANGED <<arrs, xds>>
    /\ last' = [call EXCEPT !.ok = r.ok,
                            !.res = IF r.ok THEN Len(hdrs) + 1 ELSE 0,
                            !.changed = (r.descs # descs),
                            !.n = last.n + 1,
                            !.made = last.made + 1]

\* an array of a shape holding base + 1, base + 2, ...
Ramp(shape, base) == NdArray(shape, [k \in 1..Product(shape) |-> base + k])

\* the heap with the arrays the caller has made for a call
WithArrays(H, new) == [H EXCEPT !.arrs = @ \o new]

\* x = Xdata(name, data, headers, unit) on the headers the caller has built
CallXdata ==
    /\ XGoesOn
    /\ xds = <<>>
    /\ LET shape == [i \in 1..Len(hdrs) |-> n_elem(hdrs[i])]
       IN  \E a \in {<<shape, UnitList(<<UnitItem("m", FALSE, 0),
                                         UnitItem("1", TRUE, 1),
                                         UnitItem("mm", FALSE, 0),
                                         UnitItem("2", TRUE, 2)>>)>>,
                     <<[shape EXCEPT ![1] = @ + 1], UnitNone>>,
                     <<shape \o <<1>>, UnitNone>>,
                     <<shape, UnitOther>>} :
             XOutcome(NewXdata(WithArrays(Now, <<Ramp(a[1], 0)>>),
                               LabelStr("x"), ArrRef(Len(arrs) + 1),
                               PyList([i \in 1..Len(hdrs) |-> HdrRef(i)]), a[2]),
                      XCall("Xdata", 0, "", PyNone, PyNone,
                            ArrRef(Len(arrs) + 1), PyNone, TRUE))

\* a header as a value: its fields, and its descriptors in place of the
\* references to them
HeaderValue(d, h) == [h EXCEPT !.cds = [i \in 1..Len(h.cds) |-> d[h.cds[i]]]]

\* the headers a caller chooses from: of the headers of one value, the first
CallerHeaders ==
    {k \in 1..Len(hdrs) :
       \A j \in 1..(k - 1) :
          HeaderValue(descs, hdrs[j]) # HeaderValue(descs, hdrs[k])}

\* most headers a caller makes besides those of the axes
MaxMade == 1

\* the label of a header that is not the header of an axis
OtherLabel == "other"

(* The headers a caller makes of header h to give as modified_header:
   <<operation, flag, ind, values, outcome>> *)
MadeOf(d, h) ==
    LET n == n_elem(h)
        one == PyList(<<Series(<<PyInt(9)>>)>>)
        swap == PyList([k \in 1..n |-> PyInt(IF k = 1 /\ n > 1 THEN 1
                                             ELSE IF k = 2 THEN 0 ELSE k - 1)])
        rot  == PyList([k \in 1..n |-> PyInt((k + 1) % n)])
        copy == {<<"copy", "", PyNone, PyNone, HeaderCopy(d, h)>>}
    IN  IF is_categorical_with_values(h)
        THEN {<<"update_categoricalheader", a[1], a[2], a[3],
                update_categoricalheader(d, h, a[1], a[2], a[3])>> :
                a \in {<<"new", PyNone, one>>,
                       <<"remove", PyList(<<PyInt(0)>>), PyNone>>,
                       <<"chg", PyList(<<PyInt(0)>>), one>>,
                       <<"perm", swap, PyNone>>, <<"perm", rot, PyNone>>}}
             \cup copy
             \cup {<<"CategoricalHeader", "", PyNone, PyInt(n),
                     ValuesHeader(d, OtherLabel, d[h.cds[1]].label, n, 1)>>,
                   <<"CategoricalHeader", "", PyNone, PyNone,
                     UndifferentiatedHeader(d, h.label, n)>>,
                   <<"MeasureHeader", "", PyNone, PyInt(n),
                     TimeHeader(d, h.label, 1, n)>>}
        ELSE IF is_undifferentiated(h)
        THEN {<<"CategoricalHeader", "", PyNone, PyInt(k),
                UndifferentiatedHeader(d, h.label, k)>> : k \in {n - 1, n + 1}}
             \cup copy
             \cup {<<"CategoricalHeader", "", PyNone, PyInt(k),
                     UndifferentiatedHeader(d, OtherLabel, k)>> :
                     k \in {n, n + 1}}
             \cup {<<"CategoricalHeader", "", PyNone, PyNone,
                     ValuesHeader(d, h.label, h.label, n, 1)>>,
                   <<"MeasureHeader", "", PyNone, PyInt(n),
                     TimeHeader(d, h.label, 1, n)>>}
        ELSE {<<"update_measureheader", "", a[1], a[2],
                update_measureheader(d, h, a[1], a[2], PyNone)>> :
                a \in {<<PyNone, PyInt(n - 1)>>, <<PyNone, PyInt(n + 1)>>,
                       <<PyInt(5), PyNone>>}}
             \cup copy
             \cup {<<"MeasureHeader", "", PyNone, PyInt(n),
                     TimeHeader(d, OtherLabel, 1, n)>>,
                   <<"CategoricalHeader", "", PyNone, PyNone,
                     ValuesHeader(d, h.label, h.label, n, 1)>>,
                   <<"CategoricalHeader", "", PyNone, PyInt(n),
                     UndifferentiatedHeader(d, h.label, n)>>}

\* the caller makes a header of one of its headers
CallModifiedHeader ==
    /\ XGoesOn
    /\ xds # <<>>
    /\ last.made < MaxMade
    /\ \E rcv \in CallerHeaders :
         \E m \in MadeOf(descs, hdrs[rcv]) :
            HOutcome(m[5], XCall(m[1], rcv, m[2], PyNone, m[3], m[4], PyNone, TRUE))

\* a list of ints
IntList(s) == PyList([k \in 1..Len(s) |-> PyInt(s[k])])

\* k arrays of a shape that the caller makes for a call, and the references
\* to the k arrays after the first b of the heap
Slices(shape, k) == [i \in 1..k |-> Ramp(shape, 10 * i)]
Refs(b, k) == [i \in 1..k |-> ArrRef(b + i)]

\* shapes other than shape S
WrongShapes(S) ==
    IF S = <<>> THEN {<<1>>}
    ELSE {[S EXCEPT ![1] = @ + 1], [S EXCEPT ![1] = 1]} \ {S}

\* the arguments of a call of update_xdata: new holds the arrays the caller
\* makes for the call
XArgs(ind, dataslices, mh, new) ==
    [ind |-> ind, dataslices |-> dataslices, mh |-> mh, new |-> new]

(* The arguments a caller gives to update_xdata(flag, dim, ...) on x *)
UpdateXdataArgs(x, flag, dim) ==
    LET data == arrs[x.data]
        n    == n_elem(hdrs[x.headers[dim + 1]])
        S    == DropAt(data.shape, dim)
        b    == Len(arrs)
        own  == HdrRef(x.headers[dim + 1])
        M    == {HdrRef(k) : k \in CallerHeaders}
        Sized(k) == {m \in M : n_elem(hdrs[m.v]) = k}
        swap == [k \in 1..n |-> IF k = 1 /\ n > 1 THEN 1
                                ELSE IF k = 2 THEN 0 ELSE k - 1]
    IN  IF flag = "all"
        THEN {XArgs(PyNone, ArrRef(b + 1), m,
                    <<Ramp([data.shape EXCEPT ![dim + 1] = n_elem(hdrs[m.v])],
                           10)>>) : m \in M}
             \cup {XArgs(PyNone, ArrRef(b + 1), own,
                         <<Ramp(data.shape \o <<1>>, 10)>>)}
        ELSE IF flag = "chgdata"
        THEN {XArgs(PyNone, ArrRef(b + 1), m, <<Ramp(data.shape, 10)>>) :
                m \in M \cup {PyNone}}
             \cup {XArgs(PyNone, ArrRef(b + 1), PyNone, <<Ramp(w, 10)>>) :
                     w \in WrongShapes(data.shape)}
        ELSE IF flag = "chg"
        THEN {XArgs(IntList(<<0>>), PyList(Refs(b, 1)), m, Slices(S, 1)) :
                m \in M}
             \cup {XArgs(IntList(i), PyList(Refs(b, Len(i))), own,
                         Slices(S, Len(i))) :
                     i \in {<<n - 1>>, <<-1>>, <<n>>, <<0, 1>>, <<>>}}
             \cup {XArgs(IntList(<<0>>), PyList(Refs(b, 1)), own, Slices(w, 1)) :
                     w \in WrongShapes(S)}
             \cup {XArgs(IntList(<<0>>), PyList(<<>>), own, <<>>)}
        ELSE IF flag = "new"
        THEN {XArgs(PyNone, PyList(Refs(b, 1)), m, Slices(S, 1)) : m \in M}
             \cup {XArgs(PyNone, PyList(Refs(b, 1)), m, Slices(w, 1)) :
                     m \in Sized(n + 1), w \in WrongShapes(S)}
             \cup {XArgs(PyNone, PyList(<<>>), own, <<>>)}
        ELSE IF flag = "remove"
        THEN {XArgs(IntList(<<0>>), PyNone, m, <<>>) : m \in M}
             \cup {XArgs(IntList(i), PyNone, m, <<>>) :
                     i \in {<<n - 1>>, <<n>>, <<-1>>}, m \in Sized(n - 1)}
             \cup {XArgs(IntList(i), PyNone, m, <<>>) :
                     i \in {<<0, 0>>, <<0, 1>>}, m \in Sized(n - 2)}
             \cup {XArgs(IntList(<<>>), PyNone, own, <<>>)}
             \cup {XArgs(IntList(<<0>>), PyList(Refs(b, k)), m, Slices(S, k)) :
                     k \in {0, 1}, m \in Sized(n - 1)}
        ELSE IF flag = "perm"
        THEN {XArgs(IntList(i), PyNone, m, <<>>) :
                i \in {swap, [k \in 1..n |-> (k + 1) % n]}, m \in M}
             \cup {XArgs(IntList(i), PyNone, own, <<>>) :
                     i \in {[k \in 1..n |-> k - 1], [k \in 1..n |-> 0]}}
        ELSE IF flag = "chg&new"
        THEN {XArgs(IntList(<<0>>),
                    PyList(<<PyList(Refs(b, 1)), PyList(<<ArrRef(b + 2)>>)>>),
                    m, Slices(S, 2)) : m \in M}
             \cup {XArgs(PyList(<<IntList(<<0>>), PyNone>>),
                         PyList(<<PyList(Refs(b, 1)), PyList(<<ArrRef(b + 2)>>)>>),
                         m, Slices(S, 2)) : m \in Sized(n + 1)}
             \cup {XArgs(PyList(<<IntList(<<>>), PyNone>>),
                         PyList(<<PyList(<<>>), PyList(Refs(b, 1))>>),
                         m, Slices(S, 1)) : m \in Sized(n + 1)}
             \cup {XArgs(IntList(<<0>>),
                         PyList(<<PyList(Refs(b, 1)), PyList(<<>>)>>),
                         own, Slices(S, 1))}
        ELSE IF flag = "chg&rm"
        THEN {XArgs(PyList(<<IntList(c), IntList(<<n - 1>>)>>),
                    PyList(Refs(b, Len(c))), m, Slices(S, Len(c))) :
                c \in {<<>>, <<0>>, <<0, 1>>, <<0, 1, 2>>}, m \in Sized(n - 1)}
             \cup {XArgs(PyList(<<IntList(c), IntList(<<>>)>>),
                         PyList(Refs(b, Len(c))), own, Slices(S, Len(c))) :
                     c \in {<<>>, <<0>>, <<0, 1>>, <<0, 1, 2>>}}
             \cup {XArgs(PyList(<<IntList(<<0>>), IntList(<<n - 1>>)>>),
                         PyList(Refs(b, 1)), m, Slices(S, 1)) : m \in M}
        ELSE {XArgs(PyNone, PyNone, own, <<>>)}

\* y, flag = x.update_xdata(flag, dim, ind, dataslices, modified_header)
CallUpdateXdata ==
    /\ XGoesOn
    /\ \E rcv \in 1..Len(xds) :
         \/ \E flag \in XdataFlags \cup {"rm"},
               dim \in 0..(Len(xds[rcv].headers) - 1) :
              \E a \in UpdateXdataArgs(xds[rcv], flag, dim),
                 legacy \in IF flag = "perm" THEN BOOLEAN ELSE {TRUE} :
                 XOutcome(update_xdata(WithArrays(Now, a.new), xds[rcv], flag,
                                       PyInt(dim), a.ind, a.dataslices, a.mh,
                                       legacy),
                          XCall("update_xdata", rcv, flag, PyInt(dim), a.ind,
                                a.dataslices, a.mh, legacy))
         \/ \E dim \in {PyInt(-1), PyInt(Len(xds[rcv].headers)), PyNone} :
              XOutcome(update_xdata(Now, xds[rcv], "perm", dim, PyNone, PyNone,
                                    PyNone, TRUE),
                       XCall("update_xdata", rcv, "perm", dim, PyNone, PyNone,
                             PyNone, TRUE))

\* the shapes of the arrays a caller gives to update_data
NewDataShapes(shape) ==
    {shape, shape \o <<1>>}
    \cup {[shape EXCEPT ![k] = @ + 1] : k \in 1..Len(shape)}
    \cup {[shape EXCEPT ![k] = @ - 1] : k \in {j \in 1..Len(shape) : shape[j] > 0}}
    \cup {[shape EXCEPT ![1] = @ + 2]}
    \cup {[shape EXCEPT ![k] = @ - 2] : k \in {j \in 1..Len(shape) : shape[j] > 1}}

\* y = x.update_data(newdata); the shape of newdata is recorded as ind
CallUpdateData ==
    /\ XGoesOn
    /\ \E rcv \in 1..Len(xds) :
         \E shape \in NewDataShapes(arrs[xds[rcv].data].shape) :
            XOutcome(update_data(WithArrays(Now, <<Ramp(shape, 20)>>), xds[rcv],
                                 ArrRef(Len(arrs) + 1)),
                     XCall("update_data", rcv, "", PyNone, IntList(shape),
                           ArrRef(Len(arrs) + 1), PyNone, TRUE))

\* y = x.copy()
CallXdataCopy ==
    /\ XGoesOn
    /\ \E rcv \in 1..Len(xds) :
         XOutcome(XdataCopy(Now, xds[rcv]),
                  XCall("copy", rcv, "", PyNone, PyNone, PyNone, PyNone, TRUE))

\* the attributes the class Xdata defines: its methods and its properties
XdataAttributes ==
    {"__init__", "name", "headers", "data", "data_descriptor",
     "get_n_dimensions", "shape", "copy", "update_data", "update_xdata"}

\* the orders of the axes a caller asks for: as they are and reversed
AxisOrders(nd) ==
    {IntList([i \in 1..nd |-> i - 1]), IntList([i \in 1..nd |-> nd - i])}

\* y = x.modify_dimensions('permdim', order, None, None): the lookup of an
\* attribute the class does not define raises AttributeError
CallModifyDimensions ==
    /\ XGoesOn
    /\ \E rcv \in 1..Len(xds) :
         \E order \in AxisOrders(Len(xds[rcv].headers)) :
            /\ "modify_dimensions" \notin XdataAttributes
            /\ XOutcome(XRaised(Now),
                        XCall("modify_dimensions", rcv, "permdim", order, PyNone,
                              PyNone, PyNone, TRUE))

\* the flags and the ind a caller gives to check_header_update
CheckFlags ==
    {"all", "chgdim", "new", "chg", "perm", "chgperm", "remove", "chg&new",
     "chg&rm"}
CheckInds ==
    {PyNone, IntList(<<0>>), PyList(<<IntList(<<0>>), IntList(<<1>>)>>),
     PyList(<<IntList(<<0, 1>>), IntList(<<2>>)>>)}

\* the outcome of a call that only checks: nothing is changed
COutcome(ok, call) ==
    /\ UNCHANGED <<descs, hdrs, arrs, xds>>
    /\ last' = [call EXCEPT !.ok = ok, !.n = last.n + 1, !.made = last.made]

\* the headers a caller checks against the header they were made of: the
\* header made last, the header itself, and a value that is no header
CheckedHeaders ==
    {HdrRef(k) : k \in {last.rcv, last.res} \ {0}} \cup {PyNone}

\* h.check_header_update(flag, ind, new_header) after the caller has made
\* a header of h
CallCheckHeaderUpdate ==
    /\ XGoesOn
    /\ last.made > 0
    /\ \E flag \in CheckFlags, ind \in CheckInds, new \in CheckedHeaders :
         COutcome(check_header_update(hdrs, hdrs[last.rcv], flag, ind, new),
                  XCall("check_header_update", last.rcv, flag, PyNone, ind,
                        PyNone, new, TRUE))

\* the same call on the older variant of the method
CallCheckHeaderUpdateOlder ==
    /\ XGoesOn
    /\ last.made > 0
    /\ \E flag \in {"chg", "perm", "chg&rm"}, new \in CheckedHeaders :
         COutcome(check_header_update_older(flag, IntList(<<0>>), new),
                  XCall("check_header_update_older", last.rcv, flag, PyNone,
                        IntList(<<0>>), PyNone, new, TRUE))

Next ==
    \/ CallXdata
    \/ CallModifiedHeader
    \/ CallUpdateXdata
    \/ CallUpdateData
    \/ CallXdataCopy
    \/ CallModifyDimensions
    \/ CallCheckHeaderUpdate
    \/ CallCheckHeaderUpdateOlder

Spec == Init /\ [][Next]_vars

----------------------------------------------------------------------------
(* Properties of the Xdata layer *)

\* an Xdata as a value: its name, the content of its array, its headers and
\* the descriptor of its data, in place of the references to them
XdataValue(H, x) ==
    [name |-> x.name,
     data |-> H.arrs[x.data],
     headers |-> [i \in 1..Len(x.headers) |->
                    HeaderValue(H.descs, H.hdrs[x.headers[i]])],
     data_descriptor |-> H.descs[x.data_descriptor]]

\* the number of headers of x is the rank of its data, and each header has
\* as many elements as its axis
HeadersMatchShape(H, x) ==
    /\ Len(x.headers) = Len(H.arrs[x.data].shape)
    /\ \A i \in 1..Len(x.headers) :
         n_elem(H.hdrs[x.headers[i]]) = H.arrs[x.data].shape[i]

(* C1: in every Xdata the constructor accepted or an update returned, the
   number of headers is the rank of data and headers[i].n_elem is
   data.shape[i] for every axis i. *)
C1_HeadersMatchShape ==
    \A k \in 1..Len(xds) : HeadersMatchShape(Now, xds[k])

(* C4: update_xdata and update_data, returning or raising, leave the
   receiver as it was: the same object, with the same name, the same content
   of its data array, the same headers and the same data_descriptor. *)
C4_UpdateLeavesReceiver ==
    [][last'.op \in {"update_xdata", "update_data"}
         => /\ xds'[last'.rcv] = xds[last'.rcv]
            /\ XdataValue(Heap(descs', hdrs', arrs'), xds'[last'.rcv])
                 = XdataValue(Now, xds[last'.rcv])]_vars

\* update_xdata with flag 'chg' has returned an Xdata whose data is not the
\* data of the receiver
C4_Witness ==
    /\ last.op = "update_xdata"
    /\ last.flag = "chg"
    /\ last.ok
    /\ arrs[xds[last.res].data] # arrs[xds[last.rcv].data]

----------------------------------------------------------------------------
(* Properties of Header.check_header_update *)

\* the call recorded last is a check_header_update, of either variant, with
\* a flag of the set, of a header of the kind, label and column labels of
\* the receiver
SameColumnLabels(d, h, o) ==
    /\ Len(h.cds) = Len(o.cds)
    /\ \A i \in 1..Len(h.cds) : d[h.cds[i]].label = d[o.cds[i]].label

CheckedLikeReceiver(flags) ==
    /\ last.op \in {"check_header_update", "check_header_update_older"}
    /\ last.flag \in flags
    /\ last.mh.py = "Header"
    /\ hdrs[last.mh.v].kind = hdrs[last.rcv].kind
    /\ hdrs[last.mh.v].label = hdrs[last.rcv].label
    /\ SameColumnLabels(descs, hdrs[last.rcv], hdrs[last.mh.v])

\* C11: check_header_update with flag 'chg' or 'perm' returns for a new
\* header of the kind, label and column labels of the receiver exactly when
\* the new header has as many elements as the receiver.
C11_ChgPermSameSize ==
    CheckedLikeReceiver({"chg", "perm"})
      => (last.ok <=> n_elem(hdrs[last.mh.v]) = n_elem(hdrs[last.rcv]))

\* the number of elements C12 expects of the new header
ExpectedSize(h, flag, ind) ==
    IF flag = "chg&rm" THEN n_elem(h) - Len(ind.t[2].t)
    ELSE n_elem(h) + Len(ind.t[2].t)

\* C12: check_header_update with flag 'chg&rm' and ind = [changed, removed]
\* returns for a new header of the kind and labels of the receiver exactly
\* when it has the elements of the receiver less the removed ones; with
\* flag 'chg&new' exactly when it has those of the receiver and the
\* appended ones.
C12_ChgRmChgNewSize ==
    (/\ CheckedLikeReceiver({"chg&rm", "chg&new"})
     /\ last.op = "check_header_update"
     /\ ItemHasLen(last.ind, 1))
      => (last.ok <=> n_elem(hdrs[last.mh.v])
                        = ExpectedSize(hdrs[last.rcv], last.flag, last.ind))

----------------------------------------------------------------------------
(* Properties of Xdata.update_xdata and Xdata.update_data.  In a step of
   update_xdata that returned, the receiver is xds[last'.rcv], the result
   xds'[last'.res], and the axis last'.dim.v counted from 0. *)

\* the step is a call of update_xdata with a flag of the set that returned
Updated(flags) ==
    /\ last'.op = "update_xdata"
    /\ last'.flag \in flags
    /\ last'.ok

\* the header of axis i (from 1) of the receiver before the step, and of
\* the result after it
OldHeader(i) == hdrs[xds[last'.rcv].headers[i]]
NewHeader(i) == hdrs'[xds'[last'.res].headers[i]]

\* the data of the receiver before the step, and of the result after it
OldData == arrs[xds[last'.rcv].data]
NewData == arrs'[xds'[last'.res].data]

\* C13: after an update_xdata that returned, the header of axis dim of the
\* result has the kind (measure or categorical) and the label of the header
\* of axis dim of the receiver; so a modified_header of another kind or
\* label is never taken.
C13_KindAndLabelKept ==
    [][Updated(XdataFlags)
         => /\ NewHeader(last'.dim.v + 1).kind = OldHeader(last'.dim.v + 1).kind
            /\ NewHeader(last'.dim.v + 1).label
                 = OldHeader(last'.dim.v + 1).label]_vars

\* the index tuples of an array of a shape
Coords(shape) == {Unravel(shape, k) : k \in 0..(Product(shape) - 1)}

\* the arrays given as dataslices, a list of arrays, in the step
GivenSlices == [k \in 1..Len(last'.values.t) |-> arrs'[last'.values.t[k].v]]

\* C14: update_xdata with flag 'new' on axis d and one data slice s returns
\* an Xdata whose data and whose header of axis d are one longer along d
\* than the receiver's, whose data is the receiver's at every coordinate of
\* the receiver, and whose slice at the new last position of d is s.
C14_NewAppendsSlice ==
    [][(Updated({"new"}) /\ Len(last'.values.t) = 1)
         => /\ NewData.shape
                 = [OldData.shape EXCEPT ![last'.dim.v + 1] = @ + 1]
            /\ n_elem(NewHeader(last'.dim.v + 1))
                 = n_elem(OldHeader(last'.dim.v + 1)) + 1
            /\ n_elem(NewHeader(last'.dim.v + 1))
                 = NewData.shape[last'.dim.v + 1]
            /\ \A idx \in Coords(OldData.shape) :
                 At(NewData, idx) = At(OldData, idx)
            /\ \A idx \in Coords(GivenSlices[1].shape) :
                 At(NewData, InsertAt(idx, last'.dim.v,
                                      OldData.shape[last'.dim.v + 1]))
                   = At(GivenSlices[1], idx)]_vars

\* an update_xdata with flag 'new' and one slice has returned, on data of
\* two axes
C14_Witness ==
    /\ last.op = "update_xdata"
    /\ last.flag = "new"
    /\ last.ok
    /\ Len(last.values.t) = 1
    /\ Len(arrs[xds[last.res].data].shape) = 2
    /\ arrs[xds[last.res].data].shape[last.dim.v + 1]
         = arrs[xds[last.rcv].data].shape[last.dim.v + 1] + 1

\* the slice a[:, ..., k, ..., :] at position k of axis d (from 0)
SliceAt(a, d, k) ==
    ArrayFrom(DropAt(a.shape, d), LAMBDA idx : At(a, InsertAt(idx, d, k)))

\* the arrays a list of references names, after the step
ArraysOf(refs) == [k \in 1..Len(refs) |-> arrs'[refs[k].v]]

\* the ints of a list of ints
IntsOf(l) == [k \in 1..Len(l) |-> l[k].v]

\* the changed indices of a 'chg&new' call: ind is the list I or [I, new]
ChgNewInds ==
    IF last'.ind.t # <<>> /\ last'.ind.t[1].py = "list"
    THEN IntsOf(last'.ind.t[1].t)
    ELSE IntsOf(last'.ind.t)

\* what C15 says of a result for changed indices I with slices C and
\* appended slices A on axis d of n elements
ChgNewResult(d, n, I, C, A) ==
    /\ NewData.shape = [OldData.shape EXCEPT ![d + 1] = n + Len(A)]
    /\ \A k \in 1..Len(I) : SliceAt(NewData, d, I[k]) = C[k]
    /\ \A k \in 1..Len(A) : SliceAt(NewData, d, n + k - 1) = A[k]
    /\ \A j \in 0..(n - 1) :
         (\A k \in 1..Len(I) : I[k] # j)
           => SliceAt(NewData, d, j) = SliceAt(OldData, d, j)

\* C15: update_xdata with flag 'chg&new', changed indices I with slices C
\* and appended slices A, returns an Xdata whose axis is longer by len(A),
\* whose slice at I[k] is C[k], whose slice at old length + k is A[k], and
\* whose other slices are the receiver's.
C15_ChgNewSlices ==
    [][Updated({"chg&new"})
         => ChgNewResult(last'.dim.v, OldData.shape[last'.dim.v + 1],
                         ChgNewInds, ArraysOf(last'.values.t[1].t),
                         ArraysOf(last'.values.t[2].t))]_vars

\* what C16 says of a result for changed indices I with slices C and
\* removed indices R on axis d: keep holds the positions that are not
\* removed, in order
ChgRmResult(d, I, C, keep) ==
    /\ NewData.shape = [OldData.shape EXCEPT ![d + 1] = Len(keep)]
    /\ \A p \in 1..Len(keep) :
         SliceAt(NewData, d, p - 1)
           = IF \E k \in 1..Len(I) : I[k] = keep[p]
             THEN C[CHOOSE k \in 1..Len(I) : I[k] = keep[p]]
             ELSE SliceAt(OldData, d, keep[p])

\* C16: update_xdata with flag 'chg&rm' and ind = [changed, removed] writes
\* each of the slices at its index, for any number of changed indices, then
\* deletes the removed positions: the result keeps, in order, the positions
\* that are not removed, each with its new slice if it was changed and its
\* old slice otherwise.
C16_ChgRmSlices ==
    [][Updated({"chg&rm"})
         => ChgRmResult(last'.dim.v, IntsOf(last'.ind.t[1].t),
                        ArraysOf(last'.values.t),
                        Without([k \in 1..OldData.shape[last'.dim.v + 1]
                                   |-> k - 1],
                                {r + 1 : r \in {IntsOf(last'.ind.t[2].t)[k] :
                                           k \in 1..Len(last'.ind.t[2].t)}},
                                1))]_vars

\* the positions (from 0) of an axis of n elements that a list of ints does
\* not name, in order; a negative int counts from the end
KeptPositions(n, R) ==
    Without([k \in 1..n |-> k - 1],
            {WrapIndex(R[k], n) + 1 : k \in 1..Len(R)}, 1)

\* the ints of a list are indices of an axis of n elements, and name
\* different positions
DistinctInRange(n, R) ==
    /\ \A k \in 1..Len(R) : IndexOk(R[k], n)
    /\ \A j, k \in 1..Len(R) : WrapIndex(R[j], n) = WrapIndex(R[k], n) => j = k

\* what C17 says of a result for removed indices R on axis d
RemoveResult(d, R, keep) ==
    /\ NewData.shape
         = [OldData.shape EXCEPT ![d + 1] = OldData.shape[d + 1] - Len(R)]
    /\ n_elem(NewHeader(d + 1)) = n_elem(OldHeader(d + 1)) - Len(R)
    /\ \A p \in 1..Len(keep) :
         SliceAt(NewData, d, p - 1) = SliceAt(OldData, d, keep[p])
    /\ last'.values \in {PyNone, PyList(<<>>)}

\* C17: update_xdata with flag 'remove' and distinct in-range indices
\* returns an Xdata whose axis is shorter by len(indices) and whose slices
\* are the slices of the receiver that are not removed, in their order; the
\* call is given no data slices.
C17_RemoveKeepsOthers ==
    [][(/\ Updated({"remove"})
        /\ DistinctInRange(OldData.shape[last'.dim.v + 1],
                           IntsOf(last'.ind.t)))
         => RemoveResult(last'.dim.v, IntsOf(last'.ind.t),
                         KeptPositions(OldData.shape[last'.dim.v + 1],
                                       IntsOf(last'.ind.t)))]_vars

\* an update_xdata with flag 'remove' of the first position has returned,
\* on data of two axes
C17_Witness ==
    /\ last.op = "update_xdata"
    /\ last.flag = "remove"
    /\ last.ok
    /\ last.ind = IntList(<<0>>)
    /\ Len(arrs[xds[last.res].data].shape) = 2
    /\ arrs[xds[last.res].data].shape[last.dim.v + 1]
         = arrs[xds[last.rcv].data].shape[last.dim.v + 1] - 1

\* every header of the result equals (==) the header of the receiver at
\* its place
HeadersEqual ==
    /\ Len(xds'[last'.res].headers) = Len(xds[last'.rcv].headers)
    /\ \A i \in 1..Len(xds[last'.rcv].headers) :
         HeaderEq(descs', NewHeader(i), OldHeader(i))

\* x.update_xdata(flag, dim, None, a, x.headers[dim]), a an array of the
\* shape of the data of x holding other values: whether it returns
Overwrites(H, x, flag, dim) ==
    update_xdata(WithArrays(H, <<Ramp(H.arrs[x.data].shape, 10)>>), x, flag,
                 PyInt(dim), PyNone, ArrRef(Len(H.arrs) + 1),
                 HdrRef(x.headers[dim + 1]), TRUE).ok

\* on each axis of the Xdata the caller has just built, flag 'all' with the
\* header of the axis returns as flag 'chgdata' does
AllAsChgdata ==
    (last.op = "Xdata" /\ last.ok)
      => \A dim \in 0..(Len(xds[last.res].headers) - 1) :
            Overwrites(Now, xds[last.res], "all", dim)
              = Overwrites(Now, xds[last.res], "chgdata", dim)

\* C18: update_xdata with flag 'all' and a modified_header equal to the
\* header of the axis is a data overwrite: it returns where flag 'chgdata'
\* does, with the flag 'chgdata', a result of the shape of the receiver and
\* headers equal to the receiver's; with a header that differs it returns
\* the flag 'all'.
C18_AllWithSameHeader ==
    [][/\ AllAsChgdata
       /\ Updated({"all"})
            => IF HeaderEq(descs, OldHeader(last'.dim.v + 1), hdrs[last'.mh.v])
               THEN /\ last'.ret = "chgdata"
                    /\ NewData.shape = OldData.shape
                    /\ HeadersEqual
               ELSE last'.ret = "all"]_vars

\* C19: after an update_xdata on axis dim that returned, with any flag,
\* every other axis has the length it had and a header equal to the one it
\* had, and the name and the descriptor of the data (type, unit, conversion
\* table) of the result are the receiver's.
C19_OtherAxesKept ==
    [][Updated(XdataFlags)
         => /\ Len(NewData.shape) = Len(OldData.shape)
            /\ Len(xds'[last'.res].headers) = Len(xds[last'.rcv].headers)
            /\ \A i \in 1..Len(xds[last'.rcv].headers) :
                 i # last'.dim.v + 1
                   => /\ NewData.shape[i] = OldData.shape[i]
                      /\ HeaderEq(descs', NewHeader(i), OldHeader(i))
            /\ xds'[last'.res].name = xds[last'.rcv].name
            /\ descs'[xds'[last'.res].data_descriptor]
                 = descs[xds[last'.rcv].data_descriptor]]_vars

\* an update_xdata that makes axis 0 longer has returned, on data of two
\* axes whose axis 1 has a MeasureHeader and a unit with a conversion table
C19_Witness ==
    /\ last.op = "update_xdata"
    /\ last.flag = "new"
    /\ last.ok
    /\ last.dim.v = 0
    /\ Len(xds[last.res].headers) = 2
    /\ hdrs[xds[last.res].headers[2]].kind = "measure"
    /\ xds[last.res].headers[2] # xds[last.rcv].headers[2]
    /\ Len(descs[xds[last.res].data_descriptor].all_units) = 2

\* the array of a shape given to update_data has another rank than the
\* receiver has headers, or another length than the data of the receiver
\* on an axis whose header is categorical with values
ChangesValuesAxis(shape) ==
    \/ Len(shape) # Len(xds[last'.rcv].headers)
    \/ \E i \in 1..Len(shape) :
          /\ shape[i] # OldData.shape[i]
          /\ is_categorical_with_values(OldHeader(i))

\* C20: update_data raises whenever the new array has another length than
\* the data on an axis whose header is categorical with values, whatever
\* the change, and whenever its rank is not the number of headers.
C20_ValuesAxisFixed ==
    [][(last'.op = "update_data" /\ ChangesValuesAxis(IntsOf(last'.ind.t)))
         => ~last'.ok]_vars

\* the step is an update_data with an array of the rank of the data that
\* differs from the data in the length of axis i (from 1) only
ResizesAxis(i) ==
    /\ last'.op = "update_data"
    /\ Len(last'.ind.t) = Len(OldData.shape)
    /\ i \in 1..Len(OldData.shape)
    /\ \A j \in 1..Len(OldData.shape) :
         (last'.ind.t[j].v # OldData.shape[j]) <=> (j = i)

\* C21: update_data with an array of another length L, larger or smaller,
\* along an axis whose header is undifferentiated returns an Xdata whose
\* header of that axis is undifferentiated with n_elem = L.
C21_UndifferentiatedResized ==
    [][\A i \in 1..Len(hdrs) :
         (ResizesAxis(i) /\ is_undifferentiated(OldHeader(i)))
           => /\ last'.ok
              /\ is_undifferentiated(NewHeader(i))
              /\ n_elem(NewHeader(i)) = last'.ind.t[i].v]_vars

\* the step is an update_data with an array of the rank of the data, of
\* another length than the data on axis i (from 1), that has on every other
\* axis the length of the header of the axis
ResizesOnly(i) ==
    /\ last'.op = "update_data"
    /\ Len(last'.ind.t) = Len(OldData.shape)
    /\ i \in 1..Len(OldData.shape)
    /\ last'.ind.t[i].v # OldData.shape[i]
    /\ \A j \in 1..Len(OldData.shape) :
         j # i => last'.ind.t[j].v = n_elem(OldHeader(j))

\* C22: update_data with an array of another length L along an axis whose
\* header is a MeasureHeader returns an Xdata whose header of that axis is
\* a MeasureHeader with n_elem = L and the label, start, scale and column
\* descriptor it had, and whose data is the new array.
C22_MeasureResized ==
    [][\A i \in 1..Len(hdrs) :
         (ResizesOnly(i) /\ is_measure(OldHeader(i)))
           => /\ last'.ok
              /\ is_measure(NewHeader(i))
              /\ n_elem(NewHeader(i)) = last'.ind.t[i].v
              /\ NewHeader(i).label = OldHeader(i).label
              /\ NewHeader(i).start = OldHeader(i).start
              /\ NewHeader(i).scale = OldHeader(i).scale
              /\ descs'[NewHeader(i).cds[1]] = descs[OldHeader(i).cds[1]]
              /\ xds'[last'.res].data = last'.values.v
              /\ NewData.shape = IntsOf(last'.ind.t)]_vars

\* an update_data has returned that made the measure axis 1 of data of two
\* axes shorter
C22_Witness ==
    /\ last.op = "update_data"
    /\ last.ok
    /\ Len(last.ind.t) = 2
    /\ is_measure(hdrs[xds[last.rcv].headers[2]])
    /\ last.ind.t[2].v < arrs[xds[last.rcv].data].shape[2]
    /\ last.ind.t[1].v = arrs[xds[last.rcv].data].shape[1]
    /\ n_elem(hdrs[xds[last.res].headers[2]]) = last.ind.t[2].v

----------------------------------------------------------------------------
(* Properties of the branches of update_categoricalheader.  In a step of
   update_categoricalheader the receiver is hdrs[last'.rcv] and the header
   returned hdrs'[last'.res]. *)

\* the step is a call of update_categoricalheader with the flag
HeaderCall(flag) ==
    /\ last'.op = "update_categoricalheader"
    /\ last'.flag = flag

\* the receiver of the step and the header it returned
Receiver == hdrs[last'.rcv]
Result   == hdrs'[last'.res]

\* the column descriptors of a header in a heap, as values
DescriptorsOf(d, h) == [i \in 1..Len(h.cds) |-> d[h.cds[i]]]

\* the rows of a table at the positions (from 0) of a list, in its order
RowsAt(rows, keep) == [p \in 1..Len(keep) |-> rows[keep[p] + 1]]

\* C23: update_categoricalheader('remove', indices, None) with distinct
\* indices in [0, n_elem) returns a header with len(indices) elements less,
\* whose rows are the rows that are not removed, in their order, and whose
\* column descriptors are those of the receiver.
C23_RemoveKeepsRows ==
    [][(/\ HeaderCall("remove")
        /\ last'.values = PyNone
        /\ last'.ind.py = "list"
        /\ IndicesInRange(last'.ind.t, n_elem(Receiver))
        /\ DistinctInRange(n_elem(Receiver), IntsOf(last'.ind.t)))
         => /\ last'.ok
            /\ n_elem(Result) = n_elem(Receiver) - Len(last'.ind.t)
            /\ Result.rows
                 = RowsAt(Receiver.rows,
                          KeptPositions(n_elem(Receiver), IntsOf(last'.ind.t)))
            /\ DescriptorsOf(descs', Result) = DescriptorsOf(descs, Receiver)]_vars

\* the lists of 0..n-1 that are permutations, as sequences of integers
PermutationsOf(n) ==
    {p \in [1..n -> 0..(n - 1)] : \A i, j \in 1..n : p[i] = p[j] => i = j}

\* the inverse of a permutation p of 0..Len(p)-1
Inverse(p) == [k \in 1..Len(p) |-> (CHOOSE i \in 1..Len(p) : p[i] = k - 1) - 1]

\* update_categoricalheader('perm', inverse(p), None) on the header the
\* step returned, in the heap the step left
PermBack == UpdatePerm(descs', Result, IntList(Inverse(IntsOf(last'.ind.t))), PyNone)

\* C24: for a header with values h and a permutation p of [0, n_elem),
\* update_categoricalheader('perm', p, None) followed on its result by
\* update_categoricalheader('perm', inverse(p), None) gives a header equal
\* to h by __eq__.
C24_PermRoundTrip ==
    [][(/\ HeaderCall("perm")
        /\ last'.values = PyNone
        /\ is_categorical_with_values(Receiver)
        /\ last'.ind.py = "list"
        /\ \A k \in 1..Len(last'.ind.t) : last'.ind.t[k].py = "int"
        /\ IntsOf(last'.ind.t) \in PermutationsOf(n_elem(Receiver)))
         => /\ last'.ok
            /\ PermBack.ok
            /\ HeaderEq(PermBack.descs, Receiver, PermBack.obj)
            /\ HeaderEq(PermBack.descs, PermBack.obj, Receiver)]_vars

\* a list of Python values is a permutation of [0, n)
IsPermutation(l, n) ==
    /\ \A k \in 1..Len(l) : l[k].py = "int"
    /\ IntsOf(l) \in PermutationsOf(n)

\* C25: update_categoricalheader('perm', ind, ...) fails when ind is a list
\* that is not a permutation of [0, n_elem): it repeats an index or holds
\* one outside [0, n_elem); no header is returned.
C25_PermRejectsNonPermutations ==
    [][(/\ HeaderCall("perm")
        /\ last'.ind.py = "list"
        /\ ~IsPermutation(last'.ind.t, n_elem(Receiver)))
         => (~last'.ok /\ hdrs' = hdrs)]_vars

\* the arguments of a 'chg&rm' call are well formed: ind is [changed,
\* removed], two lists of indices in [0, n), and values holds one row of the
\* width of the table for each changed index
ChgRmArgsFit(n, j) ==
    /\ last'.ind.py = "list" /\ Len(last'.ind.t) = 2
    /\ last'.ind.t[1].py = "list" /\ last'.ind.t[2].py = "list"
    /\ IndicesInRange(last'.ind.t[1].t, n)
    /\ IndicesInRange(last'.ind.t[2].t, n)
    /\ last'.values.py = "list"
    /\ Len(last'.values.t) = Len(last'.ind.t[1].t)
    /\ \A k \in 1..Len(last'.values.t) :
         last'.values.t[k].py = "Series" /\ Len(last'.values.t[k].t) = j

\* row is what C26 says of the row kept from position k (from 0) of rows,
\* for the changed indices I given with the rows V
KeptRow(row, rows, k, I, V) ==
    IF \E i \in 1..Len(I) : I[i] = k
    THEN \E i \in 1..Len(I) : I[i] = k /\ row = V[i].t
    ELSE row = rows[k + 1]

\* C26: update_categoricalheader('chg&rm', [changed, removed], values)
\* returns a header with as many elements less as there are distinct removed
\* indices; the removed indices are positions among the rows of the
\* receiver; a kept row that is in changed holds its new value, a kept row
\* that is not holds its old one, and the kept rows are in their order.
C26_ChgRmRows ==
    [][(/\ HeaderCall("chg&rm")
        /\ ChgRmArgsFit(n_elem(Receiver), get_n_columns(Receiver)))
         => LET I    == IntsOf(last'.ind.t[1].t)
                R    == IntsOf(last'.ind.t[2].t)
                keep == KeptPositions(n_elem(Receiver), R)
            IN  /\ last'.ok
                /\ n_elem(Result)
                     = n_elem(Receiver) - Cardinality({R[k] : k \in 1..Len(R)})
                /\ Len(Result.rows) = Len(keep)
                /\ \A p \in 1..Len(keep) :
                     KeptRow(Result.rows[p], Receiver.rows, keep[p], I,
                             last'.values.t)]_vars

\* C27: update_categoricalheader('new', None, values) on a header with
\* values returns a header with len(values) elements more, whose first rows
\* are the rows of the receiver in their order and whose row at position
\* old n_elem + k is values[k].
C27_NewAppendsRows ==
    [][(/\ HeaderCall("new")
        /\ last'.ind = PyNone
        /\ is_categorical_with_values(Receiver)
        /\ last'.values.py = "list"
        /\ \A k \in 1..Len(last'.values.t) :
             /\ last'.values.t[k].py = "Series"
             /\ Len(last'.values.t[k].t) = get_n_columns(Receiver))
         => /\ last'.ok
            /\ n_elem(Result) = n_elem(Receiver) + Len(last'.values.t)
            /\ \A k \in 1..n_elem(Receiver) : Result.rows[k] = Receiver.rows[k]
            /\ \A k \in 1..Len(last'.values.t) :
                 Result.rows[n_elem(Receiver) + k] = last'.values.t[k].t]_vars

\* update_categoricalheader('new', None, [s, t]) has returned a table of
\* two rows more than the two of the receiver
C27_Witness ==
    /\ last.op = "update_categoricalheader"
    /\ last.flag = "new"
    /\ last.ok
    /\ last.ind = PyNone
    /\ hdrs[last.rcv].ncols > 0
    /\ Len(hdrs[last.rcv].rows) = 2
    /\ Len(last.values.t) = 2
    /\ Len(hdrs[last.res].rows) = 4
    /\ hdrs[last.res].rows[4] = last.values.t[2].t
    /\ hdrs[last.res].rows[4] # hdrs[last.rcv].rows[2]

----------------------------------------------------------------------------
(* Properties of get_value and get_itemname *)

\* C28: CategoricalHeader.get_value(row, column) fails for every integer
\* row outside [0, n_elem), on an undifferentiated header as on a header with
\* values; on an undifferentiated header, for a row in [0, n_elem) and no
\* column, it returns the row.
C28_GetValueInRange ==
    (last.op = "get_value" /\ hdrs[last.rcv].kind = "categorical"
       /\ last.ind.py = "int")
      => /\ last.ind.v \notin 0..(n_elem(hdrs[last.rcv]) - 1) => ~last.ok
         /\ (/\ is_undifferentiated(hdrs[last.rcv])
             /\ last.values = PyNone
             /\ last.ind.v \in 0..(n_elem(hdrs[last.rcv]) - 1))
              => (last.ok /\ last.ret = last.ind)

----------------------------------------------------------------------------
(* MeasureHeader: the constructor, update_measureheader, get_value and
   get_itemname.  start and scale are kept as floats; the model holds the
   floats that are whole numbers. *)

\* a get_value that does not test that the line is in [0, n_elem)
MeasureGetValueUnchecked(h, line, column) ==
    IF ~(column.py = "NoneType" \/ (column.py = "int" /\ column.v = 0))
    THEN Failed
    ELSE IF line.py # "int" THEN Failed
    ELSE [ok |-> TRUE, obj |-> PyFloat(h.start + line.v * h.scale)]

(* MeasureHeader.get_value(line, column): start + line * scale, or Failed
   when the call raises *)
MeasureGetValue(h, line, column) ==
    IF ~(column.py = "NoneType" \/ (column.py = "int" /\ column.v = 0))
    THEN Failed
    ELSE IF line.py # "int" THEN Failed
    ELSE IF line.v >= h.n_elem \/ line.v < 0 THEN Failed
    ELSE [ok |-> TRUE, obj |-> PyFloat(h.start + line.v * h.scale)]

(* the loop of get_itemname over the list nline from position k (1-based)
   on; names is itemnames so far *)
RECURSIVE ItemnameLoop(_, _, _, _)
ItemnameLoop(h, nline, k, names) ==
    IF k > Len(nline) THEN [ok |-> TRUE, obj |-> PyList(names)]
    ELSE IF nline[k].py # "int" THEN Failed
    ELSE IF OutOfRangeTest(nline[k].v, h.n_elem) THEN Failed
    ELSE IF ~MeasureGetValue(h, nline[k], PyNone).ok THEN Failed
    ELSE ItemnameLoop(h, nline, k + 1,
                      Append(names, MeasureGetValue(h, nline[k], PyNone).obj))

(* MeasureHeader.get_itemname(nline) for an int or a list *)
MeasureGetItemname(h, nline) ==
    IF nline.py = "int" THEN
        IF OutOfRangeTest(nline.v, h.n_elem) THEN Failed
        ELSE MeasureGetValue(h, nline, PyNone)
    ELSE IF nline.py = "list" THEN ItemnameLoop(h, nline.t, 1, <<>>)
    ELSE Failed

\* the arguments a caller gives for start, n_elem and scale: values the
\* constructor accepts, None, and values of other types
StartArgs == {PyInt(1), PyFloat(3), PyNone, PyStr(1)}
SizeArgs  == {PyInt(4), PyInt(2), PyInt(0), PyInt(-1), PyNone, PyFloat(2)}
ScaleArgs == {PyInt(2), PyFloat(1), PyNone, PyStr(1)}

\* the lists of lines a caller asks the names of, on a header of n elements
AskedLists(n) ==
    {IntList(l) : l \in {<<>>, <<0, n - 1>>, <<n - 1, 0>>, <<0, n>>, <<-1>>, <<-3>>}}
    \cup {PyList(<<PyInt(0), PyStr(1)>>)}

\* h = MeasureHeader(label, start, n_elem, scale, unit)
CallMeasureHeader ==
    /\ GoesOn
    /\ Len(hdrs) < MaxRoots
    /\ \E start \in StartArgs, n \in SizeArgs, scale \in ScaleArgs,
          unit \in {UnitNone, UnitStr("s")} :
         Outcome(NewMeasureHeader(descs, LabelStr("time"), start, n, scale,
                                  unit, PyBool(0), CdNone),
                 Call("MeasureHeader", 0, "", PyTuple(<<start, n, scale>>),
                      PyNone))

\* h2 = h.update_measureheader(start, n_elem, scale)
CallUpdateMeasureHeader ==
    /\ GoesOn
    /\ \E rcv \in 1..Len(hdrs) :
         \E start \in StartArgs, n \in SizeArgs, scale \in ScaleArgs :
           Outcome(update_measureheader(descs, hdrs[rcv], start, n, scale),
                   Call("update_measureheader", rcv, "",
                        PyTuple(<<start, n, scale>>), PyNone))

\* v = h.get_value(line, column)
CallMeasureGetValue ==
    /\ GoesOn
    /\ \E rcv \in 1..Len(hdrs) :
         \E line \in AskedLines(hdrs[rcv].n_elem),
            column \in {PyNone, PyInt(0), PyInt(1)} :
           ReadOutcome(MeasureGetValue(hdrs[rcv], line, column),
                       Call("get_value", rcv, "", line, column))

\* v = h.get_itemname(nline)
CallMeasureGetItemname ==
    /\ GoesOn
    /\ \E rcv \in 1..Len(hdrs) :
         \E nline \in AskedLines(hdrs[rcv].n_elem)
                        \cup AskedLists(hdrs[rcv].n_elem) :
           ReadOutcome(MeasureGetItemname(hdrs[rcv], nline),
                       Call("get_itemname", rcv, "", nline, PyNone))

NextMeasure ==
    \/ CallMeasureHeader
    \/ CallUpdateMeasureHeader
    \/ CallMeasureGetValue
    \/ CallMeasureGetItemname

SpecMeasure == InitHeader /\ [][NextMeasure]_vars

----------------------------------------------------------------------------
(* Properties of MeasureHeader *)

\* the lines of a list of Python ints are all in [0, n)
LinesInRange(l, n) == \A k \in 1..Len(l) : l[k].py = "int" /\ l[k].v \in 0..(n - 1)

\* the value C29 gives for line k of header h
ValueAt(h, k) == PyFloat(h.start + k * h.scale)

\* C29: MeasureHeader.get_value(row) returns start + row * scale for every
\* integer row in [0, n_elem) and fails for every other integer row;
\* get_itemname gives the same values and the same failures for an int, and
\* for a list of ints the values of its rows, failing when one row fails.
C29_MeasureValues ==
    LET h == hdrs[last.rcv]
    IN  /\ (last.op \in {"get_value", "get_itemname"} /\ last.ind.py = "int"
              /\ last.values = PyNone)
             => IF last.ind.v \in 0..(h.n_elem - 1)
                THEN last.ok /\ last.ret = ValueAt(h, last.ind.v)
                ELSE ~last.ok
        /\ (last.op = "get_itemname" /\ last.ind.py = "list"
              /\ \A k \in 1..Len(last.ind.t) : last.ind.t[k].py = "int")
             => IF LinesInRange(last.ind.t, h.n_elem)
                THEN /\ last.ok
                     /\ last.ret = PyList([k \in 1..Len(last.ind.t) |->
                                             ValueAt(h, last.ind.t[k].v)])
                ELSE ~last.ok

\* get_itemname([3, 0]) has returned the values of rows 3 and 0 of a header
\* of 4 elements whose scale is not 0
C29_Witness ==
    /\ last.op = "get_itemname"
    /\ last.ok
    /\ hdrs[last.rcv].n_elem = 4
    /\ hdrs[last.rcv].scale # 0
    /\ last.ind = IntList(<<3, 0>>)
    /\ last.ret = PyList(<<ValueAt(hdrs[last.rcv], 3), ValueAt(hdrs[last.rcv], 0)>>)

\* the argument given for a field, or the value v of the receiver when the
\* argument is None
GivenOr(arg, v) == IF arg = PyNone THEN v ELSE arg.v

\* C30: update_measureheader(start, n_elem, scale) succeeds for arguments
\* that are None or of the types the constructor accepts (int or float for
\* start and scale, int for n_elem) and returns a new header with the label
\* and the column descriptor of the receiver, in which start, n_elem and
\* scale are the arguments given and the receiver's values for the others;
\* the receiver is unchanged.
C30_UpdateMeasureHeader ==
    [][(/\ last'.op = "update_measureheader"
        /\ last'.ind.t[1].py \in {"int", "float", "NoneType"}
        /\ last'.ind.t[2].py \in {"int", "NoneType"}
        /\ last'.ind.t[3].py \in {"int", "float", "NoneType"})
         => /\ last'.ok
            /\ last'.res = Len(hdrs) + 1
            /\ is_measure(Result)
            /\ Result.label = Receiver.label
            /\ Result.cds = Receiver.cds
            /\ descs' = descs
            /\ Result.start = GivenOr(last'.ind.t[1], Receiver.start)
            /\ Result.n_elem = GivenOr(last'.ind.t[2], Receiver.n_elem)
            /\ Result.scale = GivenOr(last'.ind.t[3], Receiver.scale)
            /\ hdrs'[last'.rcv] = Receiver]_vars

\* update_measureheader(start = 3.0, scale = 1.0) has returned a header
\* with the n_elem of the receiver and another start and scale
C30_Witness ==
    /\ last.op = "update_measureheader"
    /\ last.ok
    /\ last.ind = PyTuple(<<PyFloat(3), PyNone, PyFloat(1)>>)
    /\ hdrs[last.rcv].start = 1
    /\ hdrs[last.rcv].scale = 2
    /\ hdrs[last.res].start = 3
    /\ hdrs[last.res].scale = 1
    /\ hdrs[last.res].n_elem = hdrs[last.rcv].n_elem
    /\ hdrs[last.rcv].n_elem = 4

\* a MeasureHeader holds one column descriptor, with the label of the header
OneDescriptor(d, h) == Len(h.cds) = 1 /\ d[h.cds[1]].label = h.label

\* C31: every MeasureHeader obtained from the constructor or from
\* update_measureheader has n_elem >= 0 and exactly one column descriptor,
\* whose label is the label of the header; a negative n_elem is rejected.
C31_MeasureHeaderWellFormed ==
    /\ \A i \in 1..Len(hdrs) :
         is_measure(hdrs[i]) => (hdrs[i].n_elem >= 0 /\ OneDescriptor(descs, hdrs[i]))
    /\ (/\ last.op \in {"MeasureHeader", "update_measureheader"}
        /\ last.ind.t[2].py = "int"
        /\ last.ind.t[2].v < 0) => ~last.ok

----------------------------------------------------------------------------
(* Properties of copy.  In Spec a step with last'.op = "copy" is h.copy()
   when the caller has made one header more, and x.copy() otherwise. *)

HeaderCopied == last'.op = "copy" /\ last'.made # last.made
XdataCopied  == last'.op = "copy" /\ last'.made = last.made

\* the heap after update_categoricalheader('new', None, [s]) on header c,
\* s a row of nines of the width of the table
WidenedAfter(d, c) ==
    update_categoricalheader(
        d, c, "new", PyNone,
        PyList(<<Series([i \in 1..get_n_columns(c) |-> PyInt(9)])>>)).descs

\* the types of the columns of header h in heap d
ColumnTypes(d, h) == [i \in 1..Len(h.cds) |-> d[h.cds[i]].dimension_type]

\* C32: for a header h of either kind, h.copy() == h and h == h.copy(); for
\* an Xdata x, x.copy() has the data, the headers, the name and the
\* data_descriptor (unit and conversion table) of x; an update of the copy
\* of a header that widens a column leaves the column types of the original.
C32_CopiesEqual ==
    [][/\ HeaderCopied
         => /\ last'.ok
            /\ HeaderEq(descs', hdrs'[last'.res], hdrs'[last'.rcv])
            /\ HeaderEq(descs', hdrs'[last'.rcv], hdrs'[last'.res])
            /\ is_categorical_with_values(hdrs[last'.rcv])
                 => ColumnTypes(WidenedAfter(descs', hdrs'[last'.res]),
                                hdrs[last'.rcv])
                      = ColumnTypes(descs, hdrs[last'.rcv])
       /\ XdataCopied
         => /\ last'.ok
            /\ xds'[last'.res].name = xds[last'.rcv].name
            /\ NewData = OldData
            /\ Len(xds'[last'.res].headers) = Len(xds[last'.rcv].headers)
            /\ \A i \in 1..Len(xds[last'.rcv].headers) :
                 /\ HeaderEq(descs', NewHeader(i), OldHeader(i))
                 /\ HeaderEq(descs', OldHeader(i), NewHeader(i))
            /\ descs'[xds'[last'.res].data_descriptor].unit
                 = descs[xds[last'.rcv].data_descriptor].unit
            /\ descs'[xds'[last'.res].data_descriptor].all_units
                 = descs[xds[last'.rcv].data_descriptor].all_units]_vars

\* x.copy() has returned the copy of an Xdata of two axes whose data has a
\* unit, the first header holding values; an update of the header of the
\* copy widens its column
C32_Witness ==
    /\ last.op = "copy"
    /\ last.ok
    /\ last.res > 0 /\ last.res <= Len(xds) /\ last.rcv # last.res
    /\ xds[last.res].data # xds[last.rcv].data
    /\ Len(xds[last.res].headers) = 2
    /\ descs[xds[last.res].data_descriptor].unit # <<>>
    /\ is_categorical_with_values(hdrs[xds[last.res].headers[1]])
    /\ xds[last.res].headers[1] # xds[last.rcv].headers[1]
    /\ ColumnTypes(descs, hdrs[xds[last.res].headers[1]]) = <<"numeric">>
    /\ ColumnTypes(WidenedAfter(descs, hdrs[xds[last.res].headers[1]]),
                   hdrs[xds[last.res].headers[1]]) = <<"mixed">>

----------------------------------------------------------------------------
(* The axes of an Xdata reordered *)

\* order lists every axis of an array of nd axes once
IsAxisOrder(order, nd) ==
    /\ order.py = "list"
    /\ Len(order.t) = nd
    /\ \A a \in 0..(nd - 1) : \E i \in 1..nd : order.t[i] = PyInt(a)

(* C33: x.modify_dimensions('permdim', order, None, None), order listing
   every axis of x once and no new data being given, returns an Xdata whose
   axis i is the axis order[i] of x, header and length of the data together,
   so that headers[i].n_elem is data.shape[i] in the result. *)
C33_PermdimReordersAxes ==
    [][(/\ last'.op = "modify_dimensions"
        /\ last'.flag = "permdim"
        /\ IsAxisOrder(last'.dim, Len(xds[last'.rcv].headers)))
       => /\ last'.ok
          /\ Len(xds'[last'.res].headers) = Len(xds[last'.rcv].headers)
          /\ \A i \in 1..Len(xds[last'.rcv].headers) :
               /\ HeaderEq(descs', NewHeader(i), OldHeader(last'.dim.t[i].v + 1))
               /\ NewData.shape[i] = OldData.shape[last'.dim.t[i].v + 1]
               /\ n_elem(NewHeader(i)) = NewData.shape[i]]_vars

----------------------------------------------------------------------------
(* Positions of an axis permuted *)

\* the header that update_categoricalheader('perm', ind, None) makes of the
\* header of the edited axis of the receiver is, as a value, the
\* modified_header of the call
PermHeaderGiven(r) ==
    /\ r.ok
    /\ HeaderValue(r.descs, r.obj) = HeaderValue(descs, hdrs[last'.mh.v])

(* C34: after update_xdata('perm', dim, ind, None, modified_header) has
   returned, modified_header being the header update_categoricalheader('perm',
   ind, None) makes of the header with values of axis dim, every position p
   of the result holds the data slice and the header row of one position q
   of the receiver: here q is ind[p], the position the header's row comes
   from. *)
C34_PermKeepsDataWithRows ==
    [][(/\ Updated({"perm"})
        /\ is_categorical_with_values(OldHeader(last'.dim.v + 1))
        /\ PermHeaderGiven(update_categoricalheader(
               descs, OldHeader(last'.dim.v + 1), "perm", last'.ind, PyNone)))
       => \A p \in 1..Len(last'.ind.t) :
            /\ NewHeader(last'.dim.v + 1).rows[p]
                 = OldHeader(last'.dim.v + 1).rows[last'.ind.t[p].v + 1]
            /\ SliceAt(NewData, last'.dim.v, p - 1)
                 = SliceAt(OldData, last'.dim.v, last'.ind.t[p].v)]_vars

----------------------------------------------------------------------------
(* The header an update commits, against check_header_update *)

(* C35: after update_xdata(flag, dim, ind, dataslices, modified_header) has
   returned, check_header_update(flag, ind, h) called on the header of axis
   dim of the receiver returns for the header h of axis dim of the result:
   no header is committed that the guard rejects. *)
C35_CommittedHeaderPassesGuard ==
    [][Updated(XdataFlags)
       => check_header_update(hdrs', OldHeader(last'.dim.v + 1), last'.flag,
                              last'.ind,
                              HdrRef(xds'[last'.res].headers[last'.dim.v + 1]))]_vars

----------------------------------------------------------------------------
(* The shape of the slices given to an update *)

\* the elements of a sequence
Range(q) == {q[k] : k \in 1..Len(q)}

\* the references to the slices a call was given: the list dataslices, or
\* for 'chg&new' its two lists
SlicesGiven ==
    IF last'.flag = "chg&new"
    THEN UNION {Range(l.t) : l \in Range(last'.values.t)}
    ELSE Range(last'.values.t)

(* C36: update_xdata with flag 'chg', 'new', 'chg&new' or 'chg&rm' returns
   only when every slice given has, on each of its axes, the length of the
   data on the matching axis other than dim, the axis after dim included:
   the shape of each slice is the shape of the data without axis dim. *)
C36_SlicesFitUneditedAxes ==
    [][Updated({"chg", "new", "chg&new", "chg&rm"})
       => \A s \in SlicesGiven :
            arrs'[s.v].shape = DropAt(OldData.shape, last'.dim.v)]_vars

----------------------------------------------------------------------------
(* Slices changed in place *)

\* the position of an axis of n elements that the index k names: a negative
\* index counts from the end
PositionOf(k) == WrapIndex(k, OldData.shape[last'.dim.v + 1])

(* C37: update_xdata with flag 'chg' on axis dim returns an Xdata whose
   data has the shape of the receiver's, holds at each position ind[k] of
   dim the values of dataslices[k], and holds at every position that no
   ind[k] names the slice of the receiver. *)
C37_ChgWritesSlices ==
    [][Updated({"chg"})
       => /\ NewData.shape = OldData.shape
          /\ \A k \in 1..Len(last'.ind.t) :
               \A idx \in Coords(arrs'[last'.values.t[k].v].shape) :
                  At(NewData, InsertAt(idx, last'.dim.v,
                                       PositionOf(last'.ind.t[k].v)))
                    = At(arrs'[last'.values.t[k].v], idx)
          /\ \A j \in 0..(OldData.shape[last'.dim.v + 1] - 1) :
               (\A k \in 1..Len(last'.ind.t) :
                   PositionOf(last'.ind.t[k].v) # j)
                 => SliceAt(NewData, last'.dim.v, j)
                      = SliceAt(OldData, last'.dim.v, j)]_vars

\* an update_xdata with flag 'chg' of the positions 0 and 1 of the second
\* axis of data of shape (3, 3) has returned: the two columns are the slices
\* given, the third is the receiver's
C37_Witness ==
    /\ last.op = "update_xdata"
    /\ last.flag = "chg"
    /\ last.ok
    /\ last.dim = PyInt(1)
    /\ last.ind = IntList(<<0, 1>>)
    /\ arrs[xds[last.rcv].data].shape = <<3, 3>>
    /\ arrs[xds[last.res].data].shape = <<3, 3>>
    /\ arrs[last.values.t[1].v].shape = <<3>>
    /\ \A i \in 1..3 :
         /\ At(arrs[xds[last.res].data], <<i - 1, 0>>)
              = At(arrs[last.values.t[1].v], <<i - 1>>)
         /\ At(arrs[xds[last.res].data], <<i - 1, 1>>)
              = At(arrs[last.values.t[2].v], <<i - 1>>)
         /\ At(arrs[xds[last.res].data], <<i - 1, 1>>)
              # At(arrs[xds[last.rcv].data], <<i - 1, 1>>)
         /\ At(arrs[xds[last.res].data], <<i - 1, 2>>)
              = At(arrs[xds[last.rcv].data], <<i - 1, 2>>)

----------------------------------------------------------------------------
(* The indices of the slices changed *)

\* the indices of the changed slices that a call was given: ind for 'chg',
\* the first list of ind for 'chg&rm', ind or its first list for 'chg&new'
ChangedInds ==
    IF last'.flag = "chg" THEN IntsOf(last'.ind.t)
    ELSE IF last'.flag = "chg&rm" THEN IntsOf(last'.ind.t[1].t)
    ELSE ChgNewInds

(* C38: update_xdata with flag 'chg', 'chg&new' or 'chg&rm' returns only
   when every index of a changed slice lies in [0, n), n the length of the
   edited axis of the data: a call given an index such as -1 or n fails, and
   nothing is written through it. *)
C38_ChangedIndicesInRange ==
    [][Updated({"chg", "chg&new", "chg&rm"})
       => \A k \in 1..Len(ChangedInds) :
            /\ ChangedInds[k] >= 0
            /\ ChangedInds[k] < OldData.shape[last'.dim.v + 1]]_vars

----------------------------------------------------------------------------
(* What the caller keeps of the arguments of an update *)

\* the heap after the step
After == Heap(descs', hdrs', arrs')

\* the heap after the caller has then filled the array a with 99: a.fill(99)
CallerFills(a) ==
    [After EXCEPT !.arrs[a].elems = [k \in DOMAIN @ |-> 99]]

\* the heap after the caller has then called set_dimtype_to_mixed() on each
\* column descriptor of the header h
CallerWidens(h) ==
    [After EXCEPT !.descs = [i \in DOMAIN @ |->
                               IF \E k \in 1..Len(hdrs'[h].cds) : hdrs'[h].cds[k] = i
                               THEN set_dimtype_to_mixed(@[i])
                               ELSE @[i]]]

(* C39: an Xdata that update_xdata or update_data returned is not changed
   by what the caller then does to the arguments: after the caller fills
   the array given as dataslices (flags 'all', 'chgdata') or as newdata,
   the data of the Xdata is what it was, and after the caller changes the
   header given as modified_header, the headers of the Xdata are what they
   were. *)
C39_ResultSharesNoArgument ==
    [][(last'.op \in {"update_xdata", "update_data"} /\ last'.ok)
       => /\ last'.values.py = "ndarray"
               => XdataValue(CallerFills(last'.values.v), xds'[last'.res])
                    = XdataValue(After, xds'[last'.res])
          /\ last'.mh.py = "Header"
               => XdataValue(CallerWidens(last'.mh.v), xds'[last'.res])
                    = XdataValue(After, xds'[last'.res])]_vars

====
